---- MODULE Spec2Model ----
(***************************************************************************)
(* terraform-plugin-framework-nettypes: string value types for IP          *)
(* addresses, CIDR prefixes and MAC addresses.                             *)
(*                                                                         *)
(* A Go string is a sequence of one-character strings, so that the         *)
(* parsers can index it the way the code does.  s[i] of the code (0-based) *)
(* is s[i+1] here.                                                         *)
(***************************************************************************)
EXTENDS Integers, Sequences, FiniteSets, TLC

VARIABLES v, o, w, req, resp, ret, calls

vars == <<v, o, w, req, resp, ret, calls>>

-----------------------------------------------------------------------------
(* Characters and text                                                     *)

Digits == <<"0", "1", "2", "3", "4", "5", "6", "7", "8", "9">>

LowerHex == <<"a", "b", "c", "d", "e", "f">>

UpperHex == <<"A", "B", "C", "D", "E", "F">>

IndexOf(seq, c) ==
    IF \E i \in DOMAIN seq : seq[i] = c
    THEN CHOOSE i \in DOMAIN seq : seq[i] = c
    ELSE 0

\* c >= '0' && c <= '9'
IsDigit(c) == IndexOf(Digits, c) > 0

\* int(c) - '0'
DigitVal(c) == IndexOf(Digits, c) - 1

\* s[i:] of a Go string, i 0-based
From(s, i) == SubSeq(s, i + 1, Len(s))

\* s[:i] of a Go string, i 0-based
Upto(s, i) == SubSeq(s, 1, i)

\* bytealg.IndexByteString: the 0-based index of the first c in s, or -1
IndexByteString(s, c) ==
    IF \E i \in 1..Len(s) : s[i] = c
    THEN (CHOOSE i \in 1..Len(s) : s[i] = c /\ \A j \in 1..(i - 1) : s[j] # c) - 1
    ELSE -1

\* bytealg.LastIndexByteString: the 0-based index of the last c in s, or -1
LastIndexByteString(s, c) ==
    IF \E i \in 1..Len(s) : s[i] = c
    THEN (CHOOSE i \in 1..Len(s) : s[i] = c /\ \A j \in (i + 1)..Len(s) : s[j] # c) - 1
    ELSE -1

\* A text is a concatenation of parts: a literal of the code, or a run of
\* characters taken from a value.  "+" of the code is \o here.
L(s) == <<[k |-> "lit", s |-> s, cs |-> <<>>]>>

C(cs) == <<[k |-> "chars", s |-> "", cs |-> cs]>>

\* strconv.Quote, for the printable ASCII without '"' and '\' that the
\* strings of this model are made of: the string between double quotes.
Quote(cs) == L("\"") \o C(cs) \o L("\"")

-----------------------------------------------------------------------------
(* net/netip: Addr, ParseAddr                                              *)

\* The z field of netip.Addr: z0 (the zero Addr), z4, or an IPv6 zone.
z0 == [tag |-> "z0", zoneV6 |-> <<>>]

z4 == [tag |-> "z4", zoneV6 |-> <<>>]

z6noz == [tag |-> "z6", zoneV6 |-> <<>>]

Zeros(n) == [i \in 1..n |-> 0]

\* netip.Addr{}: addr is the 128-bit value as 16 bytes, big-endian
ZeroAddr == [addr |-> Zeros(16), z |-> z0]

\* A nil error
nil == [type |-> "nil", in |-> <<>>, msg |-> <<>>, at |-> <<>>]

parseAddrError(in, msg, at) ==
    [type |-> "parseAddrError", in |-> in, msg |-> L(msg), at |-> at]

\* parseAddrError.Error, parsePrefixError.Error, net.AddrError.Error
Error(err) ==
    CASE err.type = "parseAddrError" ->
            IF err.at # <<>>
            THEN L("ParseAddr(") \o Quote(err.in) \o L("): ") \o err.msg
                     \o L(" (at ") \o Quote(err.at) \o L(")")
            ELSE L("ParseAddr(") \o Quote(err.in) \o L("): ") \o err.msg
      [] err.type = "parsePrefixError" ->
            L("netip.ParsePrefix(") \o Quote(err.in) \o L("): ") \o err.msg
      [] err.type = "AddrError" ->
            L("address ") \o C(err.in) \o L(": ") \o err.msg
      [] err.type = "errorString" -> err.msg
      [] OTHER -> <<>>

\* netip.AddrFrom4: the address as an IPv4-mapped 128-bit value, z = z4
AddrFrom4(fields) ==
    [addr |-> Zeros(10) \o <<255, 255>> \o fields, z |-> z4]

\* netip.AddrFrom16
AddrFrom16(ip) == [addr |-> ip, z |-> z6noz]

\* Addr.Is4, Addr.Is6, Addr.IsValid
Is4(ip) == ip.z = z4

Is6(ip) == ip.z # z0 /\ ip.z # z4

IsValid(ip) == ip.z # z0

\* Addr.WithZone: a no-op on an address that is not IPv6
WithZone(ip, zone) ==
    IF ~Is6(ip) THEN ip
    ELSE IF zone = <<>> THEN [ip EXCEPT !.z = z6noz]
    ELSE [ip EXCEPT !.z = [tag |-> "z6", zoneV6 |-> zone]]

\* Addr.withoutZone
withoutZone(ip) == IF ~Is6(ip) THEN ip ELSE [ip EXCEPT !.z = z6noz]

\* Addr.BitLen
BitLen(ip) == IF ip.z = z0 THEN 0 ELSE IF ip.z = z4 THEN 32 ELSE 128

\* Addr.AsSlice: 4 bytes for IPv4, 16 for IPv6, none for the zero Addr
AsSlice(ip) ==
    IF ip.z = z0 THEN <<>>
    ELSE IF ip.z = z4 THEN SubSeq(ip.addr, 13, 16)
    ELSE ip.addr

RECURSIVE parseIPv4FieldsLoop(_, _, _, _, _, _, _)
parseIPv4FieldsLoop(in, s, i, val, pos, digLen, fields) ==
    IF i >= Len(s)
    THEN IF pos < 3
         THEN [err |-> parseAddrError(in, "IPv4 address too short", <<>>), fields |-> fields]
         ELSE [err |-> nil, fields |-> [fields EXCEPT ![4] = val]]
    ELSE LET c == s[i + 1] IN
         IF IsDigit(c)
         THEN IF digLen = 1 /\ val = 0
              THEN [err |-> parseAddrError(in, "IPv4 field has octet with leading zero", <<>>),
                    fields |-> fields]
              ELSE LET nv == val * 10 + DigitVal(c) IN
                   IF nv > 255
                   THEN [err |-> parseAddrError(in, "IPv4 field has value >255", <<>>),
                         fields |-> fields]
                   ELSE parseIPv4FieldsLoop(in, s, i + 1, nv, pos, digLen + 1, fields)
         ELSE IF c = "."
         THEN IF i = 0 \/ i = Len(s) - 1 \/ s[i] = "."
              THEN [err |-> parseAddrError(in, "IPv4 field must have at least one digit",
                                           From(s, i)),
                    fields |-> fields]
              ELSE IF pos = 3
              THEN [err |-> parseAddrError(in, "IPv4 address too long", <<>>), fields |-> fields]
              ELSE parseIPv4FieldsLoop(in, s, i + 1, 0, pos + 1, 0,
                                       [fields EXCEPT ![pos + 1] = val])
         ELSE [err |-> parseAddrError(in, "unexpected character", From(s, i)),
               fields |-> fields]

\* netip.parseIPv4Fields(in, off, end, fields): the four octets of in[off:end]
parseIPv4Fields(in, off, end) ==
    parseIPv4FieldsLoop(in, SubSeq(in, off + 1, end), 0, 0, 0, 0, Zeros(4))

\* netip.parseIPv4
parseIPv4(s) ==
    LET r == parseIPv4Fields(s, 0, Len(s)) IN
    IF r.err # nil THEN [ip |-> ZeroAddr, err |-> r.err]
    ELSE [ip |-> AddrFrom4(r.fields), err |-> nil]

\* c is a hex digit: its value, or -1
HexVal(c) ==
    IF IsDigit(c) THEN DigitVal(c)
    ELSE IF IndexOf(LowerHex, c) > 0 THEN IndexOf(LowerHex, c) + 9
    ELSE IF IndexOf(UpperHex, c) > 0 THEN IndexOf(UpperHex, c) + 9
    ELSE -1

parseAddrResult(ip, err) == [ip |-> ip, err |-> err]

\* parseIPv6, the inner loop "for ; off < len(s); off++": one hex group
RECURSIVE parseIPv6Hex(_, _, _)
parseIPv6Hex(s, off, acc) ==
    IF off >= Len(s) THEN [off |-> off, acc |-> acc, msg |-> ""]
    ELSE LET c == s[off + 1] IN
         IF HexVal(c) < 0 THEN [off |-> off, acc |-> acc, msg |-> ""]
         ELSE LET nacc == acc * 16 + HexVal(c) IN
              IF off > 3
              THEN [off |-> off, acc |-> nacc, msg |-> "each group must have 4 or less digits"]
              ELSE IF nacc > 65535
              THEN [off |-> off, acc |-> nacc, msg |-> "IPv6 field has value >=2^16"]
              ELSE parseIPv6Hex(s, off + 1, nacc)

\* parseIPv6, after the loop: the whole string must be used, and the
\* ellipsis expands to the missing bytes (bytes [ellipsis, i) move to the
\* end, the gap is cleared).
parseIPv6Finish(in, zone, s, i, ip, ellipsis) ==
    IF Len(s) # 0
    THEN parseAddrResult(ZeroAddr, parseAddrError(in, "trailing garbage after address", s))
    ELSE IF i < 16
    THEN IF ellipsis < 0
         THEN parseAddrResult(ZeroAddr, parseAddrError(in, "address string too short", <<>>))
         ELSE LET n == 16 - i
                  expanded == [j \in 1..16 |->
                                  IF j <= ellipsis THEN ip[j]
                                  ELSE IF j <= ellipsis + n THEN 0
                                  ELSE ip[j - n]]
              IN parseAddrResult(WithZone(AddrFrom16(expanded), zone), nil)
    ELSE IF ellipsis >= 0
    THEN parseAddrResult(ZeroAddr,
             parseAddrError(in, "the :: must expand to at least one field of zeros", <<>>))
    ELSE parseAddrResult(WithZone(AddrFrom16(ip), zone), nil)

\* parseIPv6, the loop "for i < 16": hex numbers followed by colons.  One
\* pass of the loop is split at its LET-free points: the hex number h has been
\* read (parseIPv6Group), an IPv4 address is embedded (parseIPv6Embedded), the
\* group is stored and a colon must follow (parseIPv6Colon), the colon was
\* skipped and an ellipsis may follow (parseIPv6Ellipsis).
RECURSIVE parseIPv6Loop(_, _, _, _, _, _)

parseIPv6Ellipsis(in, zone, s, i, ip, ellipsis) ==
    IF s[1] = ":"
    THEN IF ellipsis >= 0
         THEN parseAddrResult(ZeroAddr, parseAddrError(in, "multiple :: in address", s))
         ELSE IF Len(s) = 1 THEN parseIPv6Finish(in, zone, <<>>, i, ip, i)
         ELSE parseIPv6Loop(in, zone, From(s, 1), i, ip, i)
    ELSE parseIPv6Loop(in, zone, s, i, ip, ellipsis)

parseIPv6Colon(in, zone, s, i, ip, ellipsis) ==
    IF Len(s) = 0 THEN parseIPv6Finish(in, zone, s, i, ip, ellipsis)
    ELSE IF s[1] # ":"
    THEN parseAddrResult(ZeroAddr, parseAddrError(in, "unexpected character, want colon", s))
    ELSE IF Len(s) = 1
    THEN parseAddrResult(ZeroAddr,
             parseAddrError(in, "colon must be followed by more characters", s))
    ELSE parseIPv6Ellipsis(in, zone, From(s, 1), i, ip, ellipsis)

parseIPv6EmbeddedFields(in, zone, i, ip, ellipsis, r) ==
    IF r.err # nil THEN parseAddrResult(ZeroAddr, r.err)
    ELSE parseIPv6Finish(in, zone, <<>>, i + 4,
             [j \in 1..16 |-> IF j > i /\ j <= i + 4 THEN r.fields[j - i] ELSE ip[j]],
             ellipsis)

parseIPv6Embedded(in, zone, s, i, ip, ellipsis, end) ==
    IF ellipsis < 0 /\ i # 12
    THEN parseAddrResult(ZeroAddr, parseAddrError(in,
             "embedded IPv4 address must replace the final 2 fields of the address", s))
    ELSE IF i + 4 > 16
    THEN parseAddrResult(ZeroAddr, parseAddrError(in,
             "too many hex fields to fit an embedded IPv4 at the end of the address", s))
    ELSE parseIPv6EmbeddedFields(in, zone, i, ip, ellipsis,
             parseIPv4Fields(in, end - Len(s), end))

parseIPv6Group(in, zone, s, i, ip, ellipsis, h) ==
    IF h.msg # "" THEN parseAddrResult(ZeroAddr, parseAddrError(in, h.msg, s))
    ELSE IF h.off = 0
    THEN parseAddrResult(ZeroAddr,
             parseAddrError(in, "each colon-separated field must have at least one digit", s))
    ELSE IF h.off < Len(s) /\ s[h.off + 1] = "."
    THEN parseIPv6Embedded(in, zone, s, i, ip, ellipsis,
             IF Len(zone) > 0 THEN Len(in) - (Len(zone) + 1) ELSE Len(in))
    ELSE parseIPv6Colon(in, zone, From(s, h.off), i + 2,
             [ip EXCEPT ![i + 1] = h.acc \div 256, ![i + 2] = h.acc % 256], ellipsis)

parseIPv6Loop(in, zone, s, i, ip, ellipsis) ==
    IF i >= 16 THEN parseIPv6Finish(in, zone, s, i, ip, ellipsis)
    ELSE parseIPv6Group(in, zone, s, i, ip, ellipsis, parseIPv6Hex(s, 0, 0))

\* parseIPv6 once the zone is cut off: a leading "::" is an ellipsis at 0
parseIPv6Zone(in, pct, s0, zone) ==
    IF pct # -1 /\ zone = <<>>
    THEN parseAddrResult(ZeroAddr, parseAddrError(in, "zone must be a non-empty string", <<>>))
    ELSE IF Len(s0) >= 2 /\ s0[1] = ":" /\ s0[2] = ":"
    THEN IF Len(s0) = 2
         THEN parseAddrResult(WithZone(AddrFrom16(Zeros(16)), zone), nil)
         ELSE parseIPv6Loop(in, zone, From(s0, 2), 0, Zeros(16), 0)
    ELSE parseIPv6Loop(in, zone, s0, 0, Zeros(16), -1)

\* The zone of in after the '%' at pct, and in without it
cutZone(in, pct) ==
    IF pct # -1 THEN [s |-> Upto(in, pct), zone |-> From(in, pct + 1)]
    ELSE [s |-> in, zone |-> <<>>]

parseIPv6Cut(in, pct, cut) == parseIPv6Zone(in, pct, cut.s, cut.zone)

parseIPv6Percent(in, pct) == parseIPv6Cut(in, pct, cutZone(in, pct))

\* netip.parseIPv6
parseIPv6(in) == parseIPv6Percent(in, IndexByteString(in, "%"))

\* netip.ParseAddr: the first '.', ':' or '%' of s decides the parser
RECURSIVE ParseAddrScan(_, _)
ParseAddrScan(s, i) ==
    IF i >= Len(s)
    THEN parseAddrResult(ZeroAddr, parseAddrError(s, "unable to parse IP", <<>>))
    ELSE IF s[i + 1] = "." THEN parseIPv4(s)
    ELSE IF s[i + 1] = ":" THEN parseIPv6(s)
    ELSE IF s[i + 1] = "%"
    THEN parseAddrResult(ZeroAddr, parseAddrError(s, "missing IPv6 address", <<>>))
    ELSE ParseAddrScan(s, i + 1)

ParseAddr(s) == ParseAddrScan(s, 0)

-----------------------------------------------------------------------------
(* net/netip: Prefix, ParsePrefix                                          *)

\* netip.Prefix{}: the zero Addr and bitsPlusOne = 0
ZeroPrefix == [ip |-> ZeroAddr, bitsPlusOne |-> 0]

\* Prefix.Addr, Prefix.Bits (-1 for an invalid Prefix), Prefix.IsValid
PrefixAddr(p) == p.ip

Bits(p) == p.bitsPlusOne - 1

PrefixIsValid(p) == p.bitsPlusOne > 0

\* netip.PrefixFrom
PrefixFrom(ip, bits) ==
    [ip |-> withoutZone(ip),
     bitsPlusOne |-> IF IsValid(ip) /\ bits >= 0 /\ bits <= BitLen(ip) THEN bits + 1 ELSE 0]

parsePrefixError(in, msg) ==
    [type |-> "parsePrefixError", in |-> in, msg |-> msg, at |-> <<>>]

RECURSIVE DecimalValue(_)
DecimalValue(s) ==
    IF s = <<>> THEN 0 ELSE DecimalValue(Upto(s, Len(s) - 1)) * 10 + DigitVal(s[Len(s)])

\* The longest digit string Atoi is given here; with more digits the value
\* of the model's integers would overflow before Go's int does.
AtoiDigits == 8

\* strconv.Atoi on bitsStr.  ParsePrefix has already refused a sign or a
\* zero in front of two or more characters, so what is left to refuse is an
\* empty string and a character that is no digit ("+" and "-" alone too).
Atoi(s) ==
    IF s = <<>> \/ Len(s) > AtoiDigits \/ \E i \in 1..Len(s) : ~IsDigit(s[i])
    THEN [n |-> 0, ok |-> FALSE]
    ELSE [n |-> DecimalValue(s), ok |-> TRUE]

parsePrefixResult(p, err) == [p |-> p, err |-> err]

\* ParsePrefix that leaves the range of the bit-length to PrefixFrom
parsePrefixBits_NoRange(s, ip, bitsStr, bits) ==
    IF ~bits.ok
    THEN parsePrefixResult(ZeroPrefix,
             parsePrefixError(s, L("bad bits after slash: ") \o Quote(bitsStr)))
    ELSE parsePrefixResult(PrefixFrom(ip, bits.n), nil)

\* ParsePrefix that takes a bit-length up to 128 for either family
parsePrefixBits_Wide(s, ip, bitsStr, bits) ==
    IF ~bits.ok
    THEN parsePrefixResult(ZeroPrefix,
             parsePrefixError(s, L("bad bits after slash: ") \o Quote(bitsStr)))
    ELSE IF bits.n < 0 \/ bits.n > 128
    THEN parsePrefixResult(ZeroPrefix, parsePrefixError(s, L("prefix length out of range")))
    ELSE parsePrefixResult(PrefixFrom(ip, bits.n), nil)

\* ParsePrefix once the address ip and the bit-length bits are read
parsePrefixBits(s, ip, bitsStr, bits) ==
    IF ~bits.ok
    THEN parsePrefixResult(ZeroPrefix,
             parsePrefixError(s, L("bad bits after slash: ") \o Quote(bitsStr)))
    ELSE IF bits.n < 0 \/ bits.n > (IF Is6(ip) THEN 128 ELSE 32)
    THEN parsePrefixResult(ZeroPrefix, parsePrefixError(s, L("prefix length out of range")))
    ELSE parsePrefixResult(PrefixFrom(ip, bits.n), nil)

\* ParsePrefix once the address before the last '/' is parsed: a
parsePrefixAddr(s, bitsStr, a) ==
    IF a.err # nil THEN parsePrefixResult(ZeroPrefix, parsePrefixError(s, Error(a.err)))
    ELSE IF Is6(a.ip) /\ a.ip.z # z6noz
    THEN parsePrefixResult(ZeroPrefix,
             parsePrefixError(s, L("IPv6 zones cannot be present in a prefix")))
    ELSE IF Len(bitsStr) > 1 /\ (~IsDigit(bitsStr[1]) \/ bitsStr[1] = "0")
    THEN parsePrefixResult(ZeroPrefix,
             parsePrefixError(s, L("bad bits after slash: ") \o Quote(bitsStr)))
    ELSE parsePrefixBits(s, a.ip, bitsStr, Atoi(bitsStr))

\* ParsePrefix once the last '/' is found at i
parsePrefixSlash(s, i) ==
    IF i < 0 THEN parsePrefixResult(ZeroPrefix, parsePrefixError(s, L("no '/'")))
    ELSE parsePrefixAddr(s, From(s, i + 1), ParseAddr(Upto(s, i)))

\* netip.ParsePrefix
ParsePrefix(s) == parsePrefixSlash(s, LastIndexByteString(s, "/"))

-----------------------------------------------------------------------------
(* net: ParseMAC                                                           *)

\* net.xtoi on the first two bytes of s: the value and the number of hex
\* digits read
xtoi(s) ==
    IF Len(s) >= 1 /\ HexVal(s[1]) >= 0
    THEN IF Len(s) >= 2 /\ HexVal(s[2]) >= 0
         THEN [n |-> HexVal(s[1]) * 16 + HexVal(s[2]), i |-> 2]
         ELSE [n |-> HexVal(s[1]), i |-> 1]
    ELSE [n |-> 0, i |-> 0]

\* net.xtoi2: two hex digits, then e if s is longer (e = "" stands for 0)
xtoi2(s, e) ==
    IF Len(s) > 2 /\ s[3] # e THEN [n |-> 0, ok |-> FALSE]
    ELSE LET r == xtoi(Upto(s, 2)) IN [n |-> r.n, ok |-> r.i = 2]

AddrError(s) == [type |-> "AddrError", in |-> s, msg |-> L("invalid MAC address"), at |-> <<>>]

parseMACResult(hw, err) == [hw |-> hw, err |-> err]

\* ParseMAC, the loop of the ':' and '-' form: n octets, 3 characters apart
RECURSIVE ParseMACOctets(_, _, _, _, _)
ParseMACOctets(s, x, i, n, hw) ==
    IF i >= n THEN parseMACResult(hw, nil)
    ELSE LET b == xtoi2(From(s, x), s[3]) IN
         IF ~b.ok THEN parseMACResult(<<>>, AddrError(s))
         ELSE ParseMACOctets(s, x + 3, i + 1, n, Append(hw, b.n))

\* ParseMAC, the loop of the '.' form: n octets in pairs, 5 characters apart
RECURSIVE ParseMACPairs(_, _, _, _, _)
ParseMACPairs(s, x, i, n, hw) ==
    IF i >= n THEN parseMACResult(hw, nil)
    ELSE LET b1 == xtoi2(SubSeq(s, x + 1, x + 2), "") IN
         IF ~b1.ok THEN parseMACResult(<<>>, AddrError(s))
         ELSE LET b2 == xtoi2(From(s, x + 2), s[5]) IN
              IF ~b2.ok THEN parseMACResult(<<>>, AddrError(s))
              ELSE ParseMACPairs(s, x + 5, i + 2, n, hw \o <<b1.n, b2.n>>)

\* ParseMAC that takes any number of octets
ParseMAC_AnyLength(s) ==
    IF Len(s) < 14 THEN parseMACResult(<<>>, AddrError(s))
    ELSE IF s[3] = ":" \/ s[3] = "-"
    THEN IF (Len(s) + 1) % 3 # 0 THEN parseMACResult(<<>>, AddrError(s))
         ELSE ParseMACOctets(s, 0, 0, (Len(s) + 1) \div 3, <<>>)
    ELSE IF s[5] = "."
    THEN IF (Len(s) + 1) % 5 # 0 THEN parseMACResult(<<>>, AddrError(s))
         ELSE ParseMACPairs(s, 0, 0, (2 * (Len(s) + 1)) \div 5, <<>>)
    ELSE parseMACResult(<<>>, AddrError(s))

\* net.ParseMAC: a nil HardwareAddr (here <<>>) with the error
ParseMAC(s) ==
    IF Len(s) < 14 THEN parseMACResult(<<>>, AddrError(s))
    ELSE IF s[3] = ":" \/ s[3] = "-"
    THEN IF (Len(s) + 1) % 3 # 0 THEN parseMACResult(<<>>, AddrError(s))
         ELSE LET n == (Len(s) + 1) \div 3 IN
              IF n # 6 /\ n # 8 /\ n # 20 THEN parseMACResult(<<>>, AddrError(s))
              ELSE ParseMACOctets(s, 0, 0, n, <<>>)
    ELSE IF s[5] = "."
    THEN IF (Len(s) + 1) % 5 # 0 THEN parseMACResult(<<>>, AddrError(s))
         ELSE LET n == (2 * (Len(s) + 1)) \div 5 IN
              IF n # 6 /\ n # 8 /\ n # 20 THEN parseMACResult(<<>>, AddrError(s))
              ELSE ParseMACPairs(s, 0, 0, n, <<>>)
    ELSE parseMACResult(<<>>, AddrError(s))

-----------------------------------------------------------------------------
(* terraform-plugin-framework: string values, diagnostics, responses       *)

\* basetypes.StringValue inside a value type: its state and its string.
\* kind is the Go type of the value.
StringValue(kind, state, value) == [kind |-> kind, state |-> state, value |-> value]

IsNull(x) == x.state = "null"

IsUnknown(x) == x.state = "unknown"

\* StringValue.ValueString: "" unless the value is known
ValueString(x) == IF x.state = "known" THEN x.value ELSE <<>>

\* fmt.Sprintf("%T", x)
TypeName(x) ==
    CASE x.kind = "IPAddress" -> "iptypes.IPAddress"
      [] x.kind = "IPv4Address" -> "iptypes.IPv4Address"
      [] x.kind = "IPv6Address" -> "iptypes.IPv6Address"
      [] x.kind = "IPPrefix" -> "cidrtypes.IPPrefix"
      [] x.kind = "IPv4Prefix" -> "cidrtypes.IPv4Prefix"
      [] x.kind = "IPv6Prefix" -> "cidrtypes.IPv6Prefix"
      [] x.kind = "MACAddress" -> "hwtypes.MACAddress"
      [] OTHER -> "basetypes.StringValue"

\* diag.NewErrorDiagnostic, diag.NewAttributeErrorDiagnostic
NewErrorDiagnostic(summary, detail) ==
    [severity |-> "error", summary |-> summary, detail |-> detail, path |-> "no path"]

NewAttributeErrorDiagnostic(path, summary, detail) ==
    [severity |-> "error", summary |-> summary, detail |-> detail, path |-> path]

Contains(diags, d) == \E i \in 1..Len(diags) : diags[i] = d

\* Diagnostics.Append: a diagnostic the collection already holds is not added again
AppendDiag(diags, d) == IF Contains(diags, d) THEN diags ELSE Append(diags, d)

\* Diagnostics.AddError, Diagnostics.AddAttributeError
AddError(diags, summary, detail) == AppendDiag(diags, NewErrorDiagnostic(summary, detail))

AddAttributeError(diags, path, summary, detail) ==
    AppendDiag(diags, NewAttributeErrorDiagnostic(path, summary, detail))

\* function.NewArgumentFuncError; NoFuncError is the nil *FuncError
NoFuncError == [Text |-> <<>>, FunctionArgument |-> -1]

NewArgumentFuncError(position, text) == [Text |-> text, FunctionArgument |-> position]

\* The result of StringSemanticEquals
SemanticEqualsResult(match, diags) == [match |-> match, diags |-> diags]

\* The diagnostic every StringSemanticEquals adds for an operand of another type
SemanticEqualityCheckError(x, newValuable) ==
    AddError(<<>>, "Semantic Equality Check Error",
        L("An unexpected value type was received while performing semantic equality checks. ")
        \o L("Please report this to the provider developers.\n\n")
        \o L("Expected Value Type: ") \o L(TypeName(x)) \o L("\n")
        \o L("Got Value Type: ") \o L(TypeName(newValuable)))

\* The detail of a validation diagnostic: the sentence, the given value and,
\* when errText is not empty, the parser's error
GivenValue(sentence, x) == L(sentence) \o L("Given Value: ") \o C(ValueString(x)) \o L("\n")

GivenValueError(sentence, x, err) == GivenValue(sentence, x) \o L("Error: ") \o Error(err)

-----------------------------------------------------------------------------
(* iptypes                                                                 *)

\* A comparison of the 128 address bits alone, whatever the family and zone
IPAddress_StringSemanticEquals_SameBits(x, newValuable) ==
    IF newValuable.kind # "IPAddress"
    THEN SemanticEqualsResult(FALSE, SemanticEqualityCheckError(x, newValuable))
    ELSE SemanticEqualsResult(
             ParseAddr(ValueString(x)).ip.addr = ParseAddr(ValueString(newValuable)).ip.addr,
             <<>>)

\* A comparison that takes an operand that does not parse for equal
IPAddress_StringSemanticEquals_Lenient(x, newValuable) ==
    IF newValuable.kind # "IPAddress"
    THEN SemanticEqualsResult(FALSE, SemanticEqualityCheckError(x, newValuable))
    ELSE LET new == ParseAddr(ValueString(newValuable))
             current == ParseAddr(ValueString(x))
         IN SemanticEqualsResult(new.err # nil \/ current.ip = new.ip, <<>>)

\* IPAddress.StringSemanticEquals: currentIpAddr == newIpAddr, parse errors ignored
IPAddress_StringSemanticEquals(x, newValuable) ==
    IF newValuable.kind # "IPAddress"
    THEN SemanticEqualsResult(FALSE, SemanticEqualityCheckError(x, newValuable))
    ELSE LET new == ParseAddr(ValueString(newValuable))
             current == ParseAddr(ValueString(x))
         IN SemanticEqualsResult(current.ip = new.ip, <<>>)

\* A validation that takes IPv4 addresses only
IPAddress_ValidateAttribute_IPv4Only(x, rq, rsp) ==
    LET r == ParseAddr(ValueString(x)) IN
    IF IsUnknown(x) \/ IsNull(x) THEN rsp
    ELSE IF r.err # nil
    THEN [rsp EXCEPT !.Diagnostics = AddAttributeError(@, rq.Path, "Invalid IP Address String Value",
              GivenValueError("A string value was provided that is not valid IPv4 or IPv6 string format (RFC 791, RFC 4291).\n\n", x, r.err))]
    ELSE IF Is6(r.ip)
    THEN [rsp EXCEPT !.Diagnostics = AddAttributeError(@, rq.Path, "Invalid IP Address String Value",
              GivenValue("An IPv6 string format was provided, string value must be IPv4 format.\n\n", x))]
    ELSE rsp

IPAddress_ValidateAttribute(x, rq, rsp) ==
    LET r == ParseAddr(ValueString(x)) IN
    IF IsUnknown(x) \/ IsNull(x) THEN rsp
    ELSE IF r.err # nil
    THEN [rsp EXCEPT !.Diagnostics = AddAttributeError(@, rq.Path, "Invalid IP Address String Value",
              GivenValueError("A string value was provided that is not valid IPv4 or IPv6 string format (RFC 791, RFC 4291).\n\n", x, r.err))]
    ELSE IF ~IsValid(r.ip)
    THEN [rsp EXCEPT !.Diagnostics = AddAttributeError(@, rq.Path, "Invalid IP Address String Value",
              GivenValue("A string value was provided that is not valid IPv4 or IPv6 string format (RFC 791, RFC 4291).\n\n", x))]
    ELSE rsp

IPAddress_ValidateParameter(x, rq, rsp) ==
    LET r == ParseAddr(ValueString(x)) IN
    IF IsUnknown(x) \/ IsNull(x) THEN rsp
    ELSE IF r.err # nil
    THEN [rsp EXCEPT !.Error = NewArgumentFuncError(rq.Position,
              L("Invalid IP Address String Value") \o L(": ") \o GivenValueError("A string value was provided that is not valid IPv4 or IPv6 string format (RFC 791, RFC 4291).\n\n", x, r.err))]
    ELSE IF ~IsValid(r.ip)
    THEN [rsp EXCEPT !.Error = NewArgumentFuncError(rq.Position,
              L("Invalid IP Address String Value") \o L(": ") \o GivenValue("A string value was provided that is not valid IPv4 or IPv6 string format (RFC 791, RFC 4291).\n\n", x))]
    ELSE rsp

\* What a typed accessor returns: the structured value and the diagnostics
AccessorResult(value, diags) == [value |-> value, diags |-> diags]

\* An accessor with one message for a null and an unknown value
IPAddress_ValueIPAddress_OneMessage(x) ==
    LET r == ParseAddr(ValueString(x)) IN
    IF IsNull(x) \/ IsUnknown(x)
    THEN AccessorResult(ZeroAddr, AppendDiag(<<>>,
             NewErrorDiagnostic("IPAddress ValueIPAddress Error", L("IP address string value is null"))))
    ELSE IF r.err # nil
    THEN AccessorResult(ZeroAddr, AppendDiag(<<>>,
             NewErrorDiagnostic("IPAddress ValueIPAddress Error", Error(r.err))))
    ELSE AccessorResult(r.ip, <<>>)

\* IPAddress.ValueIPAddress
IPAddress_ValueIPAddress(x) ==
    LET r == ParseAddr(ValueString(x)) IN
    IF IsNull(x)
    THEN AccessorResult(ZeroAddr, AppendDiag(<<>>,
             NewErrorDiagnostic("IPAddress ValueIPAddress Error", L("IP address string value is null"))))
    ELSE IF IsUnknown(x)
    THEN AccessorResult(ZeroAddr, AppendDiag(<<>>,
             NewErrorDiagnostic("IPAddress ValueIPAddress Error", L("IP address string value is unknown"))))
    ELSE IF r.err # nil
    THEN AccessorResult(ZeroAddr, AppendDiag(<<>>,
             NewErrorDiagnostic("IPAddress ValueIPAddress Error", Error(r.err))))
    ELSE AccessorResult(r.ip, <<>>)

\* A validation that takes an IPv4-mapped or IPv4-compatible IPv6 address
\* for the IPv4 address in it
IPv4Address_ValidateAttribute_Unmapped(x, rq, rsp) ==
    LET r == ParseAddr(ValueString(x)) IN
    IF IsUnknown(x) \/ IsNull(x) THEN rsp
    ELSE IF r.err # nil
    THEN [rsp EXCEPT !.Diagnostics = AddAttributeError(@, rq.Path, "Invalid IPv4 Address String Value",
              GivenValueError("A string value was provided that is not valid IPv4 string format.\n\n", x, r.err))]
    ELSE IF Is6(r.ip) /\ SubSeq(r.ip.addr, 1, 10) # Zeros(10)
    THEN [rsp EXCEPT !.Diagnostics = AddAttributeError(@, rq.Path, "Invalid IPv4 Address String Value",
              GivenValue("An IPv6 string format was provided, string value must be IPv4 format.\n\n", x))]
    ELSE rsp

\* A validation that lets an octet with a zero in front pass
IPv4Address_ValidateAttribute_LeadingZeros(x, rq, rsp) ==
    LET r == ParseAddr(ValueString(x)) IN
    IF IsUnknown(x) \/ IsNull(x) THEN rsp
    ELSE IF r.err # nil /\ r.err.msg = L("IPv4 field has octet with leading zero") THEN rsp
    ELSE IF r.err # nil
    THEN [rsp EXCEPT !.Diagnostics = AddAttributeError(@, rq.Path, "Invalid IPv4 Address String Value",
              GivenValueError("A string value was provided that is not valid IPv4 string format.\n\n", x, r.err))]
    ELSE IF Is6(r.ip)
    THEN [rsp EXCEPT !.Diagnostics = AddAttributeError(@, rq.Path, "Invalid IPv4 Address String Value",
              GivenValue("An IPv6 string format was provided, string value must be IPv4 format.\n\n", x))]
    ELSE rsp

IPv4Address_ValidateAttribute(x, rq, rsp) ==
    LET r == ParseAddr(ValueString(x)) IN
    IF IsUnknown(x) \/ IsNull(x) THEN rsp
    ELSE IF r.err # nil
    THEN [rsp EXCEPT !.Diagnostics = AddAttributeError(@, rq.Path, "Invalid IPv4 Address String Value",
              GivenValueError("A string value was provided that is not valid IPv4 string format.\n\n", x, r.err))]
    ELSE IF Is6(r.ip)
    THEN [rsp EXCEPT !.Diagnostics = AddAttributeError(@, rq.Path, "Invalid IPv4 Address String Value",
              GivenValue("An IPv6 string format was provided, string value must be IPv4 format.\n\n", x))]
    ELSE IF ~IsValid(r.ip) \/ ~Is4(r.ip)
    THEN [rsp EXCEPT !.Diagnostics = AddAttributeError(@, rq.Path, "Invalid IPv4 Address String Value",
              GivenValue("A string value was provided that is not valid IPv4 string format.\n\n", x))]
    ELSE rsp

IPv4Address_ValidateParameter(x, rq, rsp) ==
    LET r == ParseAddr(ValueString(x)) IN
    IF IsUnknown(x) \/ IsNull(x) THEN rsp
    ELSE IF r.err # nil
    THEN [rsp EXCEPT !.Error = NewArgumentFuncError(rq.Position,
              L("Invalid IPv4 Address String Value") \o L(": ") \o GivenValueError("A string value was provided that is not valid IPv4 string format.\n\n", x, r.err))]
    ELSE IF Is6(r.ip)
    THEN [rsp EXCEPT !.Error = NewArgumentFuncError(rq.Position,
              L("Invalid IPv4 Address String Value") \o L(": ") \o GivenValue("An IPv6 string format was provided, string value must be IPv4 format.\n\n", x))]
    ELSE IF ~IsValid(r.ip) \/ ~Is4(r.ip)
    THEN [rsp EXCEPT !.Error = NewArgumentFuncError(rq.Position,
              L("Invalid IPv4 Address String Value") \o L(": ") \o GivenValue("A string value was provided that is not valid IPv4 string format.\n\n", x))]
    ELSE rsp

\* IPv4Address.ValueIPv4Address
IPv4Address_ValueIPv4Address(x) ==
    LET r == ParseAddr(ValueString(x)) IN
    IF IsNull(x)
    THEN AccessorResult(ZeroAddr, AppendDiag(<<>>,
             NewErrorDiagnostic("IPv4Address ValueIPv4Address Error", L("IPv4 address string value is null"))))
    ELSE IF IsUnknown(x)
    THEN AccessorResult(ZeroAddr, AppendDiag(<<>>,
             NewErrorDiagnostic("IPv4Address ValueIPv4Address Error", L("IPv4 address string value is unknown"))))
    ELSE IF r.err # nil
    THEN AccessorResult(ZeroAddr, AppendDiag(<<>>,
             NewErrorDiagnostic("IPv4Address ValueIPv4Address Error", Error(r.err))))
    ELSE AccessorResult(r.ip, <<>>)

\* A comparison of the two strings
IPv6Address_StringSemanticEquals_SameText(x, newValuable) ==
    IF newValuable.kind # "IPv6Address"
    THEN SemanticEqualsResult(FALSE, SemanticEqualityCheckError(x, newValuable))
    ELSE SemanticEqualsResult(ValueString(x) = ValueString(newValuable), <<>>)

\* IPv6Address.StringSemanticEquals that compares states before it parses: a
\* null or unknown value equals only a value in its state
IPv6Address_StringSemanticEquals_StateChecked(x, newValuable) ==
    IF newValuable.kind # "IPv6Address"
    THEN SemanticEqualsResult(FALSE, SemanticEqualityCheckError(x, newValuable))
    ELSE IF IsNull(x) \/ IsUnknown(x) \/ IsNull(newValuable) \/ IsUnknown(newValuable)
    THEN SemanticEqualsResult(x.state = newValuable.state, <<>>)
    ELSE SemanticEqualsResult(
             ParseAddr(ValueString(x)).ip = ParseAddr(ValueString(newValuable)).ip, <<>>)

\* IPv6Address.StringSemanticEquals that compares the addresses without
\* their zones
IPv6Address_StringSemanticEquals_NoZone(x, newValuable) ==
    IF newValuable.kind # "IPv6Address"
    THEN SemanticEqualsResult(FALSE, SemanticEqualityCheckError(x, newValuable))
    ELSE SemanticEqualsResult(
             withoutZone(ParseAddr(ValueString(x)).ip)
                 = withoutZone(ParseAddr(ValueString(newValuable)).ip), <<>>)

\* IPv6Address.StringSemanticEquals: currentIpAddr == newIpAddr, parse errors ignored
IPv6Address_StringSemanticEquals(x, newValuable) ==
    IF newValuable.kind # "IPv6Address"
    THEN SemanticEqualsResult(FALSE, SemanticEqualityCheckError(x, newValuable))
    ELSE LET new == ParseAddr(ValueString(newValuable))
             current == ParseAddr(ValueString(x))
         IN SemanticEqualsResult(current.ip = new.ip, <<>>)

IPv6Address_ValidateAttribute(x, rq, rsp) ==
    LET r == ParseAddr(ValueString(x)) IN
    IF IsUnknown(x) \/ IsNull(x) THEN rsp
    ELSE IF r.err # nil
    THEN [rsp EXCEPT !.Diagnostics = AddAttributeError(@, rq.Path, "Invalid IPv6 Address String Value",
              GivenValueError("A string value was provided that is not valid IPv6 string format (RFC 4291).\n\n", x, r.err))]
    ELSE IF Is4(r.ip)
    THEN [rsp EXCEPT !.Diagnostics = AddAttributeError(@, rq.Path, "Invalid IPv6 Address String Value",
              GivenValue("An IPv4 string format was provided, string value must be IPv6 string format or IPv4-Mapped IPv6 string format (RFC 4291).\n\n", x))]
    ELSE IF ~IsValid(r.ip) \/ ~Is6(r.ip)
    THEN [rsp EXCEPT !.Diagnostics = AddAttributeError(@, rq.Path, "Invalid IPv6 Address String Value",
              GivenValue("A string value was provided that is not valid IPv6 string format (RFC 4291).\n\n", x))]
    ELSE rsp

IPv6Address_ValidateParameter(x, rq, rsp) ==
    LET r == ParseAddr(ValueString(x)) IN
    IF IsUnknown(x) \/ IsNull(x) THEN rsp
    ELSE IF r.err # nil
    THEN [rsp EXCEPT !.Error = NewArgumentFuncError(rq.Position,
              L("Invalid IPv6 Address String Value") \o L(": ") \o GivenValueError("A string value was provided that is not valid IPv6 string format (RFC 4291).\n\n", x, r.err))]
    ELSE IF Is4(r.ip)
    THEN [rsp EXCEPT !.Error = NewArgumentFuncError(rq.Position,
              L("Invalid IPv6 Address String Value") \o L(": ") \o GivenValue("An IPv4 string format was provided, string value must be IPv6 string format or IPv4-Mapped IPv6 string format (RFC 4291).\n\n", x))]
    ELSE IF ~IsValid(r.ip) \/ ~Is6(r.ip)
    THEN [rsp EXCEPT !.Error = NewArgumentFuncError(rq.Position,
              L("Invalid IPv6 Address String Value") \o L(": ") \o GivenValue("A string value was provided that is not valid IPv6 string format (RFC 4291).\n\n", x))]
    ELSE rsp

\* IPv6Address.ValueIPv6Address
IPv6Address_ValueIPv6Address(x) ==
    LET r == ParseAddr(ValueString(x)) IN
    IF IsNull(x)
    THEN AccessorResult(ZeroAddr, AppendDiag(<<>>,
             NewErrorDiagnostic("IPv6Address ValueIPv6Address Error", L("IPv6 address string value is null"))))
    ELSE IF IsUnknown(x)
    THEN AccessorResult(ZeroAddr, AppendDiag(<<>>,
             NewErrorDiagnostic("IPv6Address ValueIPv6Address Error", L("IPv6 address string value is unknown"))))
    ELSE IF r.err # nil
    THEN AccessorResult(ZeroAddr, AppendDiag(<<>>,
             NewErrorDiagnostic("IPv6Address ValueIPv6Address Error", Error(r.err))))
    ELSE AccessorResult(r.ip, <<>>)

-----------------------------------------------------------------------------
(* cidrtypes                                                               *)

\* Prefix.Masked: the address with the bits after the first bits cleared
Masked(bytes, bits) ==
    [j \in 1..Len(bytes) |->
        IF 8 * j <= bits THEN bytes[j]
        ELSE IF 8 * (j - 1) >= bits THEN 0
        ELSE (bytes[j] \div (2 ^ (8 * j - bits))) * (2 ^ (8 * j - bits))]

\* A comparison of the two networks: the addresses masked to the bit-length
IPPrefix_StringSemanticEquals_Masked(x, newValuable) ==
    IF newValuable.kind # "IPPrefix"
    THEN SemanticEqualsResult(FALSE, SemanticEqualityCheckError(x, newValuable))
    ELSE LET new == ParsePrefix(ValueString(newValuable)).p
             current == ParsePrefix(ValueString(x)).p
         IN SemanticEqualsResult(
                /\ Bits(current) = Bits(new)
                /\ PrefixAddr(current).z = PrefixAddr(new).z
                /\ Masked(PrefixAddr(current).addr, Bits(current) + 128 - BitLen(PrefixAddr(current)))
                     = Masked(PrefixAddr(new).addr, Bits(new) + 128 - BitLen(PrefixAddr(new))),
                <<>>)

\* A comparison that takes the string of an operand of any type
IPPrefix_StringSemanticEquals_AnyType(x, newValuable) ==
    LET new == ParsePrefix(ValueString(newValuable))
        current == ParsePrefix(ValueString(x))
    IN SemanticEqualsResult(PrefixAddr(current.p) = PrefixAddr(new.p) /\ Bits(current.p) = Bits(new.p), <<>>)

\* IPPrefix.StringSemanticEquals that finds no two invalid prefixes equal
IPPrefix_StringSemanticEquals_ValidOnly(x, newValuable) ==
    IF newValuable.kind # "IPPrefix"
    THEN SemanticEqualsResult(FALSE, SemanticEqualityCheckError(x, newValuable))
    ELSE SemanticEqualsResult(
             /\ PrefixIsValid(ParsePrefix(ValueString(x)).p)
             /\ ParsePrefix(ValueString(x)).p = ParsePrefix(ValueString(newValuable)).p, <<>>)

\* IPPrefix.StringSemanticEquals: Addr() and Bits() of both, parse errors ignored
IPPrefix_StringSemanticEquals(x, newValuable) ==
    IF newValuable.kind # "IPPrefix"
    THEN SemanticEqualsResult(FALSE, SemanticEqualityCheckError(x, newValuable))
    ELSE LET new == ParsePrefix(ValueString(newValuable))
             current == ParsePrefix(ValueString(x))
         IN SemanticEqualsResult(PrefixAddr(current.p) = PrefixAddr(new.p) /\ Bits(current.p) = Bits(new.p), <<>>)

\* A validation that leaves the parser's error out of its diagnostic
IPPrefix_ValidateAttribute_NoParserError(x, rq, rsp) ==
    LET r == ParsePrefix(ValueString(x)) IN
    IF IsUnknown(x) \/ IsNull(x) THEN rsp
    ELSE IF r.err # nil \/ ~PrefixIsValid(r.p)
    THEN [rsp EXCEPT !.Diagnostics = AddAttributeError(@, rq.Path, "Invalid IP CIDR String Value",
              GivenValue("A string value was provided that is not valid IPv4 or IPv6 CIDR string format (RFC 4632, RFC 4291).\n\n", x))]
    ELSE rsp

IPPrefix_ValidateAttribute(x, rq, rsp) ==
    LET r == ParsePrefix(ValueString(x)) IN
    IF IsUnknown(x) \/ IsNull(x) THEN rsp
    ELSE IF r.err # nil
    THEN [rsp EXCEPT !.Diagnostics = AddAttributeError(@, rq.Path, "Invalid IP CIDR String Value",
              GivenValueError("A string value was provided that is not valid IPv4 or IPv6 CIDR string format (RFC 4632, RFC 4291).\n\n", x, r.err))]
    ELSE IF ~PrefixIsValid(r.p)
    THEN [rsp EXCEPT !.Diagnostics = AddAttributeError(@, rq.Path, "Invalid IP CIDR String Value",
              GivenValue("A string value was provided that is not valid IPv4 or IPv6 CIDR string format (RFC 4632, RFC 4291).\n\n", x))]
    ELSE rsp

\* A validation of a parameter that joins its error to the one the response
\* holds, as function.ConcatFuncErrors does
IPPrefix_ValidateParameter_Concat(x, rq, rsp) ==
    LET r == ParsePrefix(ValueString(x))
        text == L("Invalid IP CIDR String Value") \o L(": ")
                    \o GivenValueError("A string value was provided that is not valid IPv4 or IPv6 CIDR string format (RFC 4632, RFC 4291).\n\n", x, r.err)
    IN
    IF IsUnknown(x) \/ IsNull(x) \/ r.err = nil THEN rsp
    ELSE IF rsp.Error = NoFuncError
    THEN [rsp EXCEPT !.Error = NewArgumentFuncError(rq.Position, text)]
    ELSE [rsp EXCEPT !.Error = NewArgumentFuncError(rsp.Error.FunctionArgument, rsp.Error.Text \o L("\n") \o text)]

IPPrefix_ValidateParameter(x, rq, rsp) ==
    LET r == ParsePrefix(ValueString(x)) IN
    IF IsUnknown(x) \/ IsNull(x) THEN rsp
    ELSE IF r.err # nil
    THEN [rsp EXCEPT !.Error = NewArgumentFuncError(rq.Position,
              L("Invalid IP CIDR String Value") \o L(": ") \o GivenValueError("A string value was provided that is not valid IPv4 or IPv6 CIDR string format (RFC 4632, RFC 4291).\n\n", x, r.err))]
    ELSE IF ~PrefixIsValid(r.p)
    THEN [rsp EXCEPT !.Error = NewArgumentFuncError(rq.Position,
              L("Invalid IP CIDR String Value") \o L(": ") \o GivenValue("A string value was provided that is not valid IPv4 or IPv6 CIDR string format (RFC 4632, RFC 4291).\n\n", x))]
    ELSE rsp

\* An accessor that reports a string that does not parse the way the
\* validation does
IPPrefix_ValueIPPrefix_GivenValue(x) ==
    LET r == ParsePrefix(ValueString(x)) IN
    IF IsNull(x)
    THEN AccessorResult(ZeroPrefix, AppendDiag(<<>>,
             NewErrorDiagnostic("IPPrefix ValueIPPrefix Error", L("IP CIDR string value is null"))))
    ELSE IF IsUnknown(x)
    THEN AccessorResult(ZeroPrefix, AppendDiag(<<>>,
             NewErrorDiagnostic("IPPrefix ValueIPPrefix Error", L("IP CIDR string value is unknown"))))
    ELSE IF r.err # nil
    THEN AccessorResult(ZeroPrefix, AppendDiag(<<>>,
             NewErrorDiagnostic("IPPrefix ValueIPPrefix Error",
                 GivenValueError("A string value was provided that is not valid IPv4 or IPv6 CIDR string format (RFC 4632, RFC 4291).\n\n", x, r.err))))
    ELSE AccessorResult(r.p, <<>>)

\* IPPrefix.ValueIPPrefix
IPPrefix_ValueIPPrefix(x) ==
    LET r == ParsePrefix(ValueString(x)) IN
    IF IsNull(x)
    THEN AccessorResult(ZeroPrefix, AppendDiag(<<>>,
             NewErrorDiagnostic("IPPrefix ValueIPPrefix Error", L("IP CIDR string value is null"))))
    ELSE IF IsUnknown(x)
    THEN AccessorResult(ZeroPrefix, AppendDiag(<<>>,
             NewErrorDiagnostic("IPPrefix ValueIPPrefix Error", L("IP CIDR string value is unknown"))))
    ELSE IF r.err # nil
    THEN AccessorResult(ZeroPrefix, AppendDiag(<<>>,
             NewErrorDiagnostic("IPPrefix ValueIPPrefix Error", Error(r.err))))
    ELSE AccessorResult(r.p, <<>>)

\* A validation without the branch for the other family: an IPv6 prefix is
\* reported as a string that is no IPv4 prefix
IPv4Prefix_ValidateAttribute_NoFamilyBranch(x, rq, rsp) ==
    LET r == ParsePrefix(ValueString(x)) IN
    IF IsUnknown(x) \/ IsNull(x) THEN rsp
    ELSE IF r.err # nil
    THEN [rsp EXCEPT !.Diagnostics = AddAttributeError(@, rq.Path, "Invalid IPv4 CIDR String Value",
              GivenValueError("A string value was provided that is not valid IPv4 CIDR string format (RFC 4632).\n\n", x, r.err))]
    ELSE IF ~PrefixIsValid(r.p) \/ ~Is4(PrefixAddr(r.p))
    THEN [rsp EXCEPT !.Diagnostics = AddAttributeError(@, rq.Path, "Invalid IPv4 CIDR String Value",
              GivenValue("A string value was provided that is not valid IPv4 CIDR string format (RFC 4632).\n\n", x))]
    ELSE rsp

IPv4Prefix_ValidateAttribute(x, rq, rsp) ==
    LET r == ParsePrefix(ValueString(x)) IN
    IF IsUnknown(x) \/ IsNull(x) THEN rsp
    ELSE IF r.err # nil
    THEN [rsp EXCEPT !.Diagnostics = AddAttributeError(@, rq.Path, "Invalid IPv4 CIDR String Value",
              GivenValueError("A string value was provided that is not valid IPv4 CIDR string format (RFC 4632).\n\n", x, r.err))]
    ELSE IF Is6(PrefixAddr(r.p))
    THEN [rsp EXCEPT !.Diagnostics = AddAttributeError(@, rq.Path, "Invalid IPv4 CIDR String Value",
              GivenValue("An IPv6 CIDR string format was provided, string value must be IPv4 CIDR string format (RFC 4632).\n\n", x))]
    ELSE IF ~PrefixIsValid(r.p) \/ ~Is4(PrefixAddr(r.p))
    THEN [rsp EXCEPT !.Diagnostics = AddAttributeError(@, rq.Path, "Invalid IPv4 CIDR String Value",
              GivenValue("A string value was provided that is not valid IPv4 CIDR string format (RFC 4632).\n\n", x))]
    ELSE rsp

\* A validation of a parameter with no branch for an IPv6 prefix
IPv4Prefix_ValidateParameter_NoFamilyBranch(x, rq, rsp) ==
    LET r == ParsePrefix(ValueString(x)) IN
    IF IsUnknown(x) \/ IsNull(x) THEN rsp
    ELSE IF r.err # nil
    THEN [rsp EXCEPT !.Error = NewArgumentFuncError(rq.Position,
              L("Invalid IPv4 CIDR String Value") \o L(": ") \o GivenValueError("A string value was provided that is not valid IPv4 CIDR string format (RFC 4632).\n\n", x, r.err))]
    ELSE IF ~PrefixIsValid(r.p) \/ ~Is4(PrefixAddr(r.p))
    THEN [rsp EXCEPT !.Error = NewArgumentFuncError(rq.Position,
              L("Invalid IPv4 CIDR String Value") \o L(": ") \o GivenValue("A string value was provided that is not valid IPv4 CIDR string format (RFC 4632).\n\n", x))]
    ELSE rsp

IPv4Prefix_ValidateParameter(x, rq, rsp) ==
    LET r == ParsePrefix(ValueString(x)) IN
    IF IsUnknown(x) \/ IsNull(x) THEN rsp
    ELSE IF r.err # nil
    THEN [rsp EXCEPT !.Error = NewArgumentFuncError(rq.Position,
              L("Invalid IPv4 CIDR String Value") \o L(": ") \o GivenValueError("A string value was provided that is not valid IPv4 CIDR string format (RFC 4632).\n\n", x, r.err))]
    ELSE IF Is6(PrefixAddr(r.p))
    THEN [rsp EXCEPT !.Error = NewArgumentFuncError(rq.Position,
              L("Invalid IPv4 CIDR String Value") \o L(": ") \o GivenValue("An IPv6 CIDR string format was provided, string value must be IPv4 CIDR string format (RFC 4632).\n\n", x))]
    ELSE IF ~PrefixIsValid(r.p) \/ ~Is4(PrefixAddr(r.p))
    THEN [rsp EXCEPT !.Error = NewArgumentFuncError(rq.Position,
              L("Invalid IPv4 CIDR String Value") \o L(": ") \o GivenValue("A string value was provided that is not valid IPv4 CIDR string format (RFC 4632).\n\n", x))]
    ELSE rsp

\* IPv4Prefix.ValueIPv4Prefix
IPv4Prefix_ValueIPv4Prefix(x) ==
    LET r == ParsePrefix(ValueString(x)) IN
    IF IsNull(x)
    THEN AccessorResult(ZeroPrefix, AppendDiag(<<>>,
             NewErrorDiagnostic("IPv4Prefix ValueIPv4Prefix Error", L("IPv4 CIDR string value is null"))))
    ELSE IF IsUnknown(x)
    THEN AccessorResult(ZeroPrefix, AppendDiag(<<>>,
             NewErrorDiagnostic("IPv4Prefix ValueIPv4Prefix Error", L("IPv4 CIDR string value is unknown"))))
    ELSE IF r.err # nil
    THEN AccessorResult(ZeroPrefix, AppendDiag(<<>>,
             NewErrorDiagnostic("IPv4Prefix ValueIPv4Prefix Error", Error(r.err))))
    ELSE AccessorResult(r.p, <<>>)

\* The IPv6Prefix value type (ipv6_prefix_value.go): its methods follow the
\* described contract, the texts of IPv6PrefixType.Validate and the expected
\* diagnostics of TestIPv6PrefixValidateAttribute and
\* TestIPv6PrefixStringSemanticEquals.
\* IPv6Prefix.StringSemanticEquals
IPv6Prefix_StringSemanticEquals(x, newValuable) ==
    IF newValuable.kind # "IPv6Prefix"
    THEN SemanticEqualsResult(FALSE, SemanticEqualityCheckError(x, newValuable))
    ELSE LET new == ParsePrefix(ValueString(newValuable))
             current == ParsePrefix(ValueString(x))
         IN SemanticEqualsResult(PrefixAddr(current.p) = PrefixAddr(new.p) /\ Bits(current.p) = Bits(new.p), <<>>)

IPv6Prefix_ValidateAttribute(x, rq, rsp) ==
    LET r == ParsePrefix(ValueString(x)) IN
    IF IsUnknown(x) \/ IsNull(x) THEN rsp
    ELSE IF r.err # nil
    THEN [rsp EXCEPT !.Diagnostics = AddAttributeError(@, rq.Path, "Invalid IPv6 CIDR String Value",
              GivenValueError("A string value was provided that is not valid IPv6 CIDR string format (RFC 4291).\n\n", x, r.err))]
    ELSE IF Is4(PrefixAddr(r.p))
    THEN [rsp EXCEPT !.Diagnostics = AddAttributeError(@, rq.Path, "Invalid IPv6 CIDR String Value",
              GivenValue("An IPv4 CIDR string format was provided, string value must be IPv6 CIDR string format (RFC 4291).\n\n", x))]
    ELSE IF ~PrefixIsValid(r.p) \/ ~Is6(PrefixAddr(r.p))
    THEN [rsp EXCEPT !.Diagnostics = AddAttributeError(@, rq.Path, "Invalid IPv6 CIDR String Value",
              GivenValue("A string value was provided that is not valid IPv6 CIDR string format (RFC 4291).\n\n", x))]
    ELSE rsp

IPv6Prefix_ValidateParameter(x, rq, rsp) ==
    LET r == ParsePrefix(ValueString(x)) IN
    IF IsUnknown(x) \/ IsNull(x) THEN rsp
    ELSE IF r.err # nil
    THEN [rsp EXCEPT !.Error = NewArgumentFuncError(rq.Position,
              L("Invalid IPv6 CIDR String Value") \o L(": ") \o GivenValueError("A string value was provided that is not valid IPv6 CIDR string format (RFC 4291).\n\n", x, r.err))]
    ELSE IF Is4(PrefixAddr(r.p))
    THEN [rsp EXCEPT !.Error = NewArgumentFuncError(rq.Position,
              L("Invalid IPv6 CIDR String Value") \o L(": ") \o GivenValue("An IPv4 CIDR string format was provided, string value must be IPv6 CIDR string format (RFC 4291).\n\n", x))]
    ELSE IF ~PrefixIsValid(r.p) \/ ~Is6(PrefixAddr(r.p))
    THEN [rsp EXCEPT !.Error = NewArgumentFuncError(rq.Position,
              L("Invalid IPv6 CIDR String Value") \o L(": ") \o GivenValue("A string value was provided that is not valid IPv6 CIDR string format (RFC 4291).\n\n", x))]
    ELSE rsp

\* IPv6Prefix.ValueIPv6Prefix: a null or an unknown value gives its own
\* message; a known value that is no IPv6 prefix gives the diagnostic of the
\* validation, under the title of the accessor
IPv6Prefix_ValueIPv6Prefix(x) ==
    LET r == ParsePrefix(ValueString(x)) IN
    IF IsNull(x)
    THEN AccessorResult(ZeroPrefix, AppendDiag(<<>>,
             NewErrorDiagnostic("IPv6Prefix ValueIPv6Prefix Error", L("IPv6 CIDR string value is null"))))
    ELSE IF IsUnknown(x)
    THEN AccessorResult(ZeroPrefix, AppendDiag(<<>>,
             NewErrorDiagnostic("IPv6Prefix ValueIPv6Prefix Error", L("IPv6 CIDR string value is unknown"))))
    ELSE IF r.err # nil
    THEN AccessorResult(ZeroPrefix, AppendDiag(<<>>,
             NewErrorDiagnostic("IPv6Prefix ValueIPv6Prefix Error",
                 GivenValueError("A string value was provided that is not valid IPv6 CIDR string format (RFC 4291).\n\n", x, r.err))))
    ELSE IF Is4(PrefixAddr(r.p))
    THEN AccessorResult(ZeroPrefix, AppendDiag(<<>>,
             NewErrorDiagnostic("IPv6Prefix ValueIPv6Prefix Error",
                 GivenValue("An IPv4 CIDR string format was provided, string value must be IPv6 CIDR string format (RFC 4291).\n\n", x))))
    ELSE AccessorResult(r.p, <<>>)

-----------------------------------------------------------------------------
(* hwtypes                                                                 *)

\* A comparison of the first six octets
MACAddress_StringSemanticEquals_FirstSix(x, newValuable) ==
    IF newValuable.kind # "MACAddress"
    THEN SemanticEqualsResult(FALSE, SemanticEqualityCheckError(x, newValuable))
    ELSE LET new == ParseMAC(ValueString(newValuable)).hw
             current == ParseMAC(ValueString(x)).hw
         IN SemanticEqualsResult(
                IF current = <<>> \/ new = <<>> THEN current = new
                ELSE SubSeq(current, 1, 6) = SubSeq(new, 1, 6),
                <<>>)

\* A comparison that answers false when an operand does not parse
MACAddress_StringSemanticEquals_ParseChecked(x, newValuable) ==
    IF newValuable.kind # "MACAddress"
    THEN SemanticEqualsResult(FALSE, SemanticEqualityCheckError(x, newValuable))
    ELSE LET new == ParseMAC(ValueString(newValuable))
             current == ParseMAC(ValueString(x))
         IN SemanticEqualsResult(new.err = nil /\ current.err = nil /\ current.hw = new.hw, <<>>)

\* MACAddress.StringSemanticEquals: bytes.Equal of both, parse errors ignored
MACAddress_StringSemanticEquals(x, newValuable) ==
    IF newValuable.kind # "MACAddress"
    THEN SemanticEqualsResult(FALSE, SemanticEqualityCheckError(x, newValuable))
    ELSE LET new == ParseMAC(ValueString(newValuable))
             current == ParseMAC(ValueString(x))
         IN SemanticEqualsResult(current.hw = new.hw, <<>>)

\* MACAddress.ValidateAttribute that reports the string and the parser's
\* error in two diagnostics
MACAddress_ValidateAttribute_Twice(x, rq, rsp) ==
    IF IsUnknown(x) \/ IsNull(x) THEN rsp
    ELSE IF ParseMAC(ValueString(x)).err # nil
    THEN [rsp EXCEPT !.Diagnostics =
              AddAttributeError(
                  AddAttributeError(@, rq.Path, "Invalid MAC Address String Value",
                      GivenValue("A string value was provided that is not valid MAC string format.\n\n", x)),
                  rq.Path, "Invalid MAC Address String Value", Error(ParseMAC(ValueString(x)).err))]
    ELSE rsp

MACAddress_ValidateAttribute(x, rq, rsp) ==
    LET r == ParseMAC(ValueString(x)) IN
    IF IsUnknown(x) \/ IsNull(x) THEN rsp
    ELSE IF r.err # nil
    THEN [rsp EXCEPT !.Diagnostics = AddAttributeError(@, rq.Path, "Invalid MAC Address String Value",
              GivenValueError("A string value was provided that is not valid MAC string format.\n\n", x, r.err))]
    ELSE rsp

\* A validation that lets a null value pass and parses an unknown one
MACAddress_ValidateParameter_UnknownParsed(x, rq, rsp) ==
    LET r == ParseMAC(ValueString(x)) IN
    IF IsNull(x) THEN rsp
    ELSE IF r.err # nil
    THEN [rsp EXCEPT !.Error = NewArgumentFuncError(rq.Position,
              L("Invalid MAC Address String Value") \o L(": ") \o GivenValueError("A string value was provided that is not valid MAC string format.\n\n", x, r.err))]
    ELSE rsp

MACAddress_ValidateParameter(x, rq, rsp) ==
    LET r == ParseMAC(ValueString(x)) IN
    IF IsUnknown(x) \/ IsNull(x) THEN rsp
    ELSE IF r.err # nil
    THEN [rsp EXCEPT !.Error = NewArgumentFuncError(rq.Position,
              L("Invalid MAC Address String Value") \o L(": ") \o GivenValueError("A string value was provided that is not valid MAC string format.\n\n", x, r.err))]
    ELSE rsp

\* MACAddress.ValueMACAddress
MACAddress_ValueMACAddress(x) ==
    LET r == ParseMAC(ValueString(x)) IN
    IF IsNull(x)
    THEN AccessorResult(<<>>, AppendDiag(<<>>,
             NewErrorDiagnostic("MACAddress ValueMACAddress Error", L("MAC address string value is null"))))
    ELSE IF IsUnknown(x)
    THEN AccessorResult(<<>>, AppendDiag(<<>>,
             NewErrorDiagnostic("MACAddress ValueMACAddress Error", L("MAC address string value is unknown"))))
    ELSE IF r.err # nil
    THEN AccessorResult(<<>>, AppendDiag(<<>>,
             NewErrorDiagnostic("MACAddress ValueMACAddress Error", Error(r.err))))
    ELSE AccessorResult(r.hw, <<>>)

-----------------------------------------------------------------------------
(* Writing addresses as text: the spellings the values under test hold     *)

RECURSIVE DecStr(_)
DecStr(n) == IF n < 10 THEN <<Digits[n + 1]>> ELSE DecStr(n \div 10) \o <<Digits[(n % 10) + 1]>>

RECURSIVE HexStr(_, _)
HexStr(n, upper) ==
    LET d == n % 16
        c == IF d < 10 THEN Digits[d + 1] ELSE IF upper THEN UpperHex[d - 9] ELSE LowerHex[d - 9]
    IN IF n < 16 THEN <<c>> ELSE HexStr(n \div 16, upper) \o <<c>>

Pad(k) == [i \in 1..k |-> "0"]

RECURSIVE Join(_, _)
Join(fields, sep) ==
    IF fields = <<>> THEN <<>>
    ELSE IF Len(fields) = 1 THEN fields[1]
    ELSE fields[1] \o sep \o Join(Tail(fields), sep)

\* Dotted decimal: the octets octs, octet i written with pads[i] zeros in front
V4Spell(octs, pads) ==
    Join([i \in 1..Len(octs) |-> Pad(pads[i]) \o DecStr(octs[i])], <<".">>)

\* The 16-bit groups g of an IPv6 address written in hex: upper or lower
\* case, every group at least width digits wide (zeros in front), the zero
\* groups ell.start .. ell.start + ell.len - 1 written as "::" (ell.len = 0:
\* none), and with v4tail the last two groups written as dotted decimal.
V6Spell(g, upper, width, ell, v4tail) ==
    LET last == IF v4tail THEN 6 ELSE 8
        grp(i) == LET h == HexStr(g[i], upper) IN Pad(width - Len(h)) \o h
        tail == V4Spell(<<g[7] \div 256, g[7] % 256, g[8] \div 256, g[8] % 256>>, Zeros(4))
        left == [i \in 1..(ell.start - 1) |-> grp(i)]
        right == [i \in 1..(last - (ell.start + ell.len) + 1) |-> grp(ell.start + ell.len - 1 + i)]
        all == [i \in 1..last |-> grp(i)]
        withTail(fs) == IF v4tail THEN Append(fs, tail) ELSE fs
    IN IF ell.len = 0 THEN Join(withTail(all), <<":">>)
       ELSE Join(left, <<":">>) \o <<":", ":">> \o Join(withTail(right), <<":">>)

\* The "::" a spelling of g may use: none, or a run of zero groups
Ellipses(g, v4tail) ==
    {[start |-> 1, len |-> 0]} \cup
    {e \in [start : 1..8, len : 1..8] :
        /\ e.start + e.len - 1 <= (IF v4tail THEN 6 ELSE 8)
        /\ \A i \in e.start..(e.start + e.len - 1) : g[i] = 0}

\* The bytes of the address with groups g
GroupBytes(g) == [j \in 1..16 |-> IF j % 2 = 1 THEN g[(j + 1) \div 2] \div 256 ELSE g[j \div 2] % 256]

\* A MAC address written with a delimiter: ":" or "-" between octets, "."
\* between pairs of octets
MACSpell(hw, delim, upper) ==
    LET oct(i) == (IF hw[i] < 16 THEN <<"0">> ELSE <<>>) \o HexStr(hw[i], upper) IN
    IF delim = "."
    THEN Join([i \in 1..(Len(hw) \div 2) |-> oct(2 * i - 1) \o oct(2 * i)], <<".">>)
    ELSE Join([i \in 1..Len(hw) |-> oct(i)], <<delim>>)

\* All strings over alphabet of length at most n
RECURSIVE Strings(_, _)
Strings(alphabet, n) ==
    IF n = 0 THEN {<<>>}
    ELSE LET shorter == Strings(alphabet, n - 1) IN
         shorter \cup {Append(s, c) : s \in {x \in shorter : Len(x) = n - 1}, c \in alphabet}

-----------------------------------------------------------------------------
(* The values under test                                                   *)

\* IPv4 octets are written with 0 .. MaxPad zeros in front
MaxPad == 1

\* The longest string over RawAlphabet given to the validators
MaxRawLen == 7

\* The number of diagnostics a response may hold before a call
MaxPrior == 1

\* The number of comparisons recorded for one triple of values
MaxCalls == 3

Kinds == {"IPAddress", "IPv4Address", "IPv6Address", "IPPrefix", "IPv4Prefix", "IPv6Prefix",
          "MACAddress"}

\* The kinds with a StringSemanticEquals method
SemanticKinds == {"IPAddress", "IPv6Address", "IPPrefix", "IPv6Prefix", "MACAddress"}

\* IPv6 addresses as 8 groups: ::, 2001:db8::8:800:200c:417a,
\* ::ffff:192.168.255.255, ::192.168.255.255, 2001:db8::cd3, 2001:db8::cd30
V6Values ==
    { <<0, 0, 0, 0, 0, 0, 0, 0>>,
      <<8193, 3512, 0, 0, 8, 2048, 8204, 16762>>,
      <<0, 0, 0, 0, 0, 65535, 49320, 65535>>,
      <<0, 0, 0, 0, 0, 0, 49320, 65535>>,
      <<8193, 3512, 0, 0, 0, 0, 0, 3283>>,
      <<8193, 3512, 0, 0, 0, 0, 0, 52528>> }

\* The longest runs of zero groups of g
LongestEllipses(g, v4tail) ==
    {e \in Ellipses(g, v4tail) :
        e.len > 0 /\ \A f \in Ellipses(g, v4tail) : f.len <= e.len}

NoEllipsis == [start |-> 1, len |-> 0]

\* How an IPv6 address is spelled: the case of the hex letters, the least
\* width of a group, with or without "::", the last two groups in hex or in
\* dotted decimal
Style(upper, width, compress, v4tail) ==
    [upper |-> upper, width |-> width, compress |-> compress, v4tail |-> v4tail]

V6Styles ==
    { Style(FALSE, 1, TRUE, FALSE), Style(TRUE, 1, TRUE, FALSE),
      Style(FALSE, 4, FALSE, FALSE), Style(TRUE, 4, FALSE, FALSE),
      Style(FALSE, 1, FALSE, FALSE), Style(TRUE, 4, TRUE, FALSE),
      Style(FALSE, 1, TRUE, TRUE), Style(TRUE, 4, FALSE, TRUE) }

\* The "::" of a spelling of g in a style: a longest run of zero groups when
\* the style compresses and g has one
StyleEllipses(g, st) ==
    IF st.compress /\ LongestEllipses(g, st.v4tail) # {}
    THEN LongestEllipses(g, st.v4tail)
    ELSE {NoEllipsis}

\* The spellings of the IPv6 address with groups g
V6Forms(g) ==
    UNION {{V6Spell(g, st.upper, st.width, ell, st.v4tail) : ell \in StyleEllipses(g, st)} :
               st \in V6Styles}

\* IPv4 addresses as 4 octets
V4Values == {<<127, 0, 0, 1>>, <<192, 168, 255, 255>>, <<104, 28, 204, 174>>, <<104, 28, 204, 175>>}

Zones == {<<"e", "t", "h", "0">>, <<"e", "t", "h", "1">>}

\* IPv6 addresses that are given with a zone: fe80::1, ::ffff:192.168.255.255
ZonedValues == {<<65152, 0, 0, 0, 0, 0, 0, 1>>, <<0, 0, 0, 0, 0, 65535, 49320, 65535>>}

\* What a valid address text means: its family, bytes and zone
AddrMeaning(text, family, bytes, zone) ==
    [text |-> text, family |-> family, bytes |-> bytes, zone |-> zone]

\* The spellings of every address of V6Values
V6FormsOf == [g \in V6Values |-> V6Forms(g)]

V6Table ==
    UNION {{AddrMeaning(text, 6, GroupBytes(g), <<>>) : text \in V6FormsOf[g]} : g \in V6Values}

V4Table == {AddrMeaning(V4Spell(octs, Zeros(4)), 4, octs, <<>>) : octs \in V4Values}

ZonedTable ==
    UNION {{AddrMeaning(V6Spell(g, FALSE, 1, ell, FALSE) \o <<"%">> \o zone, 6, GroupBytes(g), zone) :
                zone \in Zones, ell \in LongestEllipses(g, FALSE) \cup {NoEllipsis}} :
               g \in ZonedValues}
    \cup {AddrMeaning(V6Spell(g, FALSE, 1, NoEllipsis, FALSE), 6, GroupBytes(g), <<>>) :
                g \in ZonedValues}

AddrTable == V6Table \cup V4Table \cup ZonedTable

\* The address texts that no table spells: the two of the documentation of
\* the prefix types, which mix group widths
DocumentedTable ==
    { AddrMeaning(<<"2", "0", "0", "1", ":", "0", "D", "B", "8", ":", "0", ":", "0", ":", "0", ":", "0", ":", "0", ":", "0", "C", "D", "3">>, 6,
          GroupBytes(<<8193, 3512, 0, 0, 0, 0, 0, 3283>>), <<>>),
      AddrMeaning(<<"2", "0", "0", "1", ":", "0", "D", "B", "8", ":", ":", "C", "D", "3", "0">>, 6,
          GroupBytes(<<8193, 3512, 0, 0, 0, 0, 0, 52528>>), <<>>) }

\* Texts that are no address
InvalidAddrTexts ==
    { <<>>,
      <<"1", "2", "7", ".", "0", ".", "A", ".", "1">>,
      <<"0", ":", "0", ":", "0", ":", "0", ":", "0", ":", "0", ":", "0", ":", "1", ":", "9", "9">>,
      <<"f", "e", "8", "0", ":", ":", "1", "%">> }

\* What a valid prefix text means: the meaning of its address and its bit-length
PrefixMeaning(m, bits) ==
    [text |-> m.text \o <<"/">> \o DecStr(bits), family |-> m.family, bytes |-> m.bytes,
     bits |-> bits]

V6PrefixValues ==
    { <<0, 0, 0, 0, 0, 65535, 49320, 65535>>,
      <<8193, 3512, 0, 0, 0, 0, 0, 3283>>,
      <<8193, 3512, 0, 0, 0, 0, 0, 52528>> }

\* The spellings of every prefix of an address of V6PrefixValues
V6PrefixFormsOf ==
    [g \in V6PrefixValues |->
        [bits \in {60, 112} |-> {f \o <<"/">> \o DecStr(bits) : f \in V6FormsOf[g]}]]

PrefixTable ==
    {PrefixMeaning(m, bits) :
        m \in {m \in V6Table : \E g \in V6PrefixValues : m.bytes = GroupBytes(g)} \cup DocumentedTable,
        bits \in {60, 112}}
    \cup {PrefixMeaning(m, bits) : m \in V4Table, bits \in {31, 32}}

\* Texts that are no prefix
InvalidPrefixTexts ==
    { <<>>,
      <<"1", "2", "7", ".", "0", ".", "0", ".", "1">>,
      <<"2", "0", "0", "1", ":", "d", "b", "8", ":", ":", "/", "1", "2", "9">>,
      <<"f", "e", "8", "0", ":", ":", "1", "%", "e", "/", "6", "4">> }

\* MAC addresses of 6, 8 and 20 octets; the second 8-octet one begins with the
\* octets of the first 6-octet one
MACValues ==
    { <<0, 0, 94, 0, 83, 0>>,
      <<0, 0, 94, 0, 83, 171>>,
      <<2, 0, 94, 16, 0, 0, 0, 1>>,
      <<0, 0, 94, 0, 83, 0, 0, 0>>,
      <<0, 0, 0, 0, 254, 128, 0, 0, 0, 0, 0, 0, 2, 0, 94, 16, 0, 0, 0, 1>> }

\* What a valid MAC address text means: its octets
MACTable ==
    {[text |-> MACSpell(hw, delim, upper), bytes |-> hw] :
        hw \in MACValues, delim \in {":", "-", "."}, upper \in BOOLEAN}

\* Texts that are no MAC address
InvalidMACTexts ==
    { <<>>,
      <<"0", "0", "-", "0", "0", ":", "5", "e", "-", "0", "0", "-", "5", "3", "-", "0", "1">>,
      <<"0", "0", ":", "0", "0", ":", "5", "G", ":", "0", "0", ":", "5", "3", ":", "0", "0">>,
      <<"0", ":", "0", ":", "0", ":", "0", ":", "0", ":", "0", ":", "0">> }

\* The text s with the character c at i
Replace(s, i, c) == [s EXCEPT ![i] = c]

\* Texts one character away from a MAC address of 6 octets, and addresses
\* of 5, 7 and 10 octets
MACNearMisses ==
    UNION {{Replace(t, i, c) : i \in 1..Len(t), c \in {":", "-", ".", "g", "F"}} :
               t \in {MACSpell(<<0, 0, 94, 0, 83, 171>>, delim, FALSE) : delim \in {":", "-", "."}}}
    \cup {MACSpell(hw, delim, FALSE) :
            hw \in {<<0, 0, 94, 0, 83>>, <<0, 0, 94, 0, 83, 0, 1>>,
                    <<0, 0, 94, 0, 83, 0, 0, 1, 0, 2>>},
            delim \in {":", "-", "."}}

\* The meanings of a text in a table: one for a text of the table, none for another
Meanings(table, text) == {m \in table : m.text = text}

-----------------------------------------------------------------------------
(* The state: the values a caller holds, the request and the response it   *)
(* passes, and what the calls made so far returned                         *)

Texts(table) == {m.text : m \in table}

\* A null and an unknown value hold the empty string
NullValue(kind) == StringValue(kind, "null", <<>>)

UnknownValue(kind) == StringValue(kind, "unknown", <<>>)

KnownValues(kind, texts) == {StringValue(kind, "known", text) : text \in texts}

\* No third value: the caller holds a receiver and one operand
NoValue == StringValue("none", "null", <<>>)

\* The strings given to StringSemanticEquals of a kind
SemanticTexts(kind) ==
    CASE kind = "IPAddress" -> Texts(AddrTable) \cup Texts(DocumentedTable) \cup InvalidAddrTexts
      [] kind = "IPv6Address" -> Texts(AddrTable) \cup Texts(DocumentedTable) \cup InvalidAddrTexts
      [] kind = "IPPrefix" -> Texts(PrefixTable) \cup InvalidPrefixTexts
      [] kind = "IPv6Prefix" -> Texts(PrefixTable) \cup InvalidPrefixTexts
      [] kind = "MACAddress" -> Texts(MACTable) \cup InvalidMACTexts

\* One valid string of each kind; basetypes.StringValue holds any string
SampleText(kind) ==
    CASE kind \in {"IPAddress", "IPv4Address"} -> <<"1", "2", "7", ".", "0", ".", "0", ".", "1">>
      [] kind = "IPv6Address" -> <<":", ":">>
      [] kind \in {"IPPrefix", "IPv4Prefix"} -> <<"1", "2", "7", ".", "0", ".", "0", ".", "1", "/", "3", "2">>
      [] kind = "IPv6Prefix" -> <<":", ":", "/", "6", "0">>
      [] kind = "MACAddress" -> MACSpell(<<0, 0, 94, 0, 83, 0>>, ":", FALSE)
      [] OTHER -> <<"1", "2", "7", ".", "0", ".", "0", ".", "1">>

\* The operands of the receiver's own type, and those of another type
SameKindOperands(kind) ==
    KnownValues(kind, SemanticTexts(kind)) \cup {NullValue(kind), UnknownValue(kind)}

OtherKindOperands(kind) ==
    {StringValue(k, "known", SampleText(k)) : k \in (Kinds \cup {"StringValue"}) \ {kind}}

\* The request of a validation call: the attribute path, the argument position
Requests == [Path : {"test"}, Position : {0}]

Response(diags, err) == [Diagnostics |-> diags, Error |-> err]

\* A diagnostic of another validator
OtherDiagnostic == NewErrorDiagnostic("Other Error", L("Another validator failed"))

\* The responses a call is given: at most MaxPrior diagnostics of other
\* validators, no function error
PriorResponses ==
    {Response([i \in 1..n |-> OtherDiagnostic], NoFuncError) : n \in 0..MaxPrior}

\* What the last call returned; before is the response the call was given
Returned(op, match, diags, before) ==
    [op |-> op, match |-> match, diags |-> diags, before |-> before]

NoCall == Returned("none", FALSE, <<>>, Response(<<>>, NoFuncError))

\* A comparison that was made and its answer
Call(recv, arg, match) == [recv |-> recv, arg |-> arg, match |-> match]

\* A receiver and one operand of a kind with StringSemanticEquals
InitSemantic ==
    /\ \E kind \in SemanticKinds :
           /\ v \in SameKindOperands(kind)
           /\ o \in SameKindOperands(kind) \cup OtherKindOperands(kind)
    /\ w = NoValue
    /\ req \in Requests
    /\ resp = Response(<<>>, NoFuncError)
    /\ ret = NoCall
    /\ calls = {}

\* With a third value the caller compares any two of the three, else the
\* receiver with the operand
Receivers == IF w = NoValue THEN {v} ELSE {v, o, w}

Arguments == IF w = NoValue THEN {o} ELSE {v, o, w}

\* A call of StringSemanticEquals on receiver a with operand b that returned r
Compared(a, b, r) ==
    /\ Cardinality(calls) < MaxCalls
    /\ \A c \in calls : c.recv # a \/ c.arg # b
    /\ ret' = Returned("StringSemanticEquals", r.match, r.diags, resp)
    /\ calls' = calls \cup {Call(a, b, r.match)}
    /\ UNCHANGED <<v, o, w, req, resp>>

IPAddressStringSemanticEquals ==
    \E a \in Receivers, b \in Arguments :
        a.kind = "IPAddress" /\ Compared(a, b, IPAddress_StringSemanticEquals(a, b))

IPv6AddressStringSemanticEquals ==
    \E a \in Receivers, b \in Arguments :
        a.kind = "IPv6Address" /\ Compared(a, b, IPv6Address_StringSemanticEquals(a, b))

IPPrefixStringSemanticEquals ==
    \E a \in Receivers, b \in Arguments :
        a.kind = "IPPrefix" /\ Compared(a, b, IPPrefix_StringSemanticEquals(a, b))

IPv6PrefixStringSemanticEquals ==
    \E a \in Receivers, b \in Arguments :
        a.kind = "IPv6Prefix" /\ Compared(a, b, IPv6Prefix_StringSemanticEquals(a, b))

MACAddressStringSemanticEquals ==
    \E a \in Receivers, b \in Arguments :
        a.kind = "MACAddress" /\ Compared(a, b, MACAddress_StringSemanticEquals(a, b))

NextSemantic ==
    \/ IPAddressStringSemanticEquals
    \/ IPv6AddressStringSemanticEquals
    \/ IPPrefixStringSemanticEquals
    \/ IPv6PrefixStringSemanticEquals
    \/ MACAddressStringSemanticEquals

\* Two values of one kind are compared
SpecSemantic == InitSemantic /\ [][NextSemantic]_vars

\* The strings of the values that are compared three at a time: three
\* spellings of one value, another value, a string that does not parse
EquivTexts(kind) ==
    CASE kind \in {"IPAddress", "IPv6Address"} ->
             << <<":", ":", "f", "f", "f", "f", ":", "c", "0", "a", "8", ":", "f", "f", "f", "f">>,
                <<"0", ":", "0", ":", "0", ":", "0", ":", "0", ":", "F", "F", "F", "F", ":", "C", "0", "A", "8", ":", "F", "F", "F", "F">>,
                <<":", ":", "F", "F", "F", "F", ":", "1", "9", "2", ".", "1", "6", "8", ".", "2", "5", "5", ".", "2", "5", "5">>,
                <<"1", "9", "2", ".", "1", "6", "8", ".", "2", "5", "5", ".", "2", "5", "5">>,
                <<"1", "2", "7", ".", "0", ".", "A", ".", "1">> >>
      [] kind \in {"IPPrefix", "IPv6Prefix"} ->
             << <<"2", "0", "0", "1", ":", "d", "b", "8", ":", ":", "c", "d", "3", "/", "6", "0">>,
                <<"2", "0", "0", "1", ":", "0", "D", "B", "8", ":", "0", ":", "0", ":", "0", ":", "0", ":", "0", ":", "0", "C", "D", "3", "/", "6", "0">>,
                <<"2", "0", "0", "1", ":", "D", "B", "8", ":", ":", "0", ".", "0", ".", "1", "2", ".", "2", "1", "1", "/", "6", "0">>,
                <<"2", "0", "0", "1", ":", "d", "b", "8", ":", ":", "c", "d", "3", "0", "/", "6", "0">>,
                <<"2", "0", "0", "1", ":", "d", "b", "8", ":", ":", "/", "1", "2", "9">> >>
      [] kind = "MACAddress" ->
             << <<"0", "0", ":", "0", "0", ":", "5", "e", ":", "0", "0", ":", "5", "3", ":", "a", "b">>,
                <<"0", "0", "-", "0", "0", "-", "5", "E", "-", "0", "0", "-", "5", "3", "-", "A", "B">>,
                <<"0", "0", "0", "0", ".", "5", "e", "0", "0", ".", "5", "3", "a", "b">>,
                <<"0", "0", ":", "0", "0", ":", "5", "e", ":", "0", "0", ":", "5", "3", ":", "0", "0">>,
                <<"0", "0", "-", "0", "0", ":", "5", "e", "-", "0", "0", "-", "5", "3", "-", "0", "1">> >>

\* The values of a kind that are compared three at a time, in an order
EquivOperands(kind) ==
    [i \in 1..Len(EquivTexts(kind)) |-> StringValue(kind, "known", EquivTexts(kind)[i])]
    \o <<NullValue(kind)>>

\* Three values of one kind; the order of the three does not matter, since
\* any of them is compared with any of them
InitEquiv ==
    /\ \E kind \in SemanticKinds :
           \E i, j, k \in 1..Len(EquivOperands(kind)) :
               /\ i <= j /\ j <= k
               /\ v = EquivOperands(kind)[i]
               /\ o = EquivOperands(kind)[j]
               /\ w = EquivOperands(kind)[k]
    /\ req \in Requests
    /\ resp = Response(<<>>, NoFuncError)
    /\ ret = NoCall
    /\ calls = {}

\* Three values of one kind are compared with one another
SpecEquiv == InitEquiv /\ [][NextSemantic]_vars

-----------------------------------------------------------------------------
(* Validation: one value, validated as an attribute or as a parameter      *)

AddrTexts == Texts(AddrTable) \cup Texts(DocumentedTable) \cup InvalidAddrTexts

PrefixTexts == Texts(PrefixTable) \cup InvalidPrefixTexts

\* Dotted decimal texts: four octets in and out of range, the octets of
\* V4Values with zeros in front, three and five octets
V4Samples ==
    {V4Spell(octs, Zeros(4)) : octs \in [1..4 -> {0, 9, 255, 256}]}
    \cup {V4Spell(octs, pads) : octs \in V4Values, pads \in [1..4 -> 0..MaxPad]}
    \cup {V4Spell(octs, Zeros(3)) : octs \in [1..3 -> {0, 255}]}
    \cup {V4Spell(octs, Zeros(5)) : octs \in [1..5 -> {0, 255}]}
    \cup {<<"1", "2", "7", ".", "0", "0", "0", ".", "0", "0", "0", ".", "0", "0", "1">>}

RawAlphabet == {"0", "1", "."}

RawTexts == Strings(RawAlphabet, MaxRawLen)

\* What is written after the '/' of a prefix
BitsTexts ==
    { <<"0">>, <<"8">>, <<"3", "2">>, <<"3", "3">>, <<"1", "2", "8">>, <<"1", "2", "9">>,
      <<"9", "9", "9">>, <<"0", "8">>, <<>>, <<"+", "8">>, <<"x">> }

V4PrefixSamples ==
    {a \o <<"/">> \o b : a \in V4Samples, b \in {<<"8">>}}
    \cup {a \o <<"/">> \o b : a \in Texts(V4Table) \cup {<<":", ":">>}, b \in BitsTexts}
    \cup {<<"1", "2", "7", ".", "0", ".", "0", ".", "0", "0", "0", "/", "8">>}

\* The strings given to the validation of a kind
ValidateTexts(kind) ==
    CASE kind = "IPAddress" -> AddrTexts \cup V4Samples
      [] kind = "IPv4Address" -> AddrTexts \cup V4Samples \cup RawTexts
      [] kind = "IPv6Address" -> AddrTexts
      [] kind = "IPPrefix" -> PrefixTexts \cup V4PrefixSamples
      [] kind = "IPv4Prefix" -> PrefixTexts \cup V4PrefixSamples
      [] kind = "IPv6Prefix" -> PrefixTexts \cup V4PrefixSamples
      [] kind = "MACAddress" -> Texts(MACTable) \cup InvalidMACTexts \cup MACNearMisses

\* A value of any kind and state, a request and a response
InitValidate ==
    /\ \E kind \in Kinds :
           v \in KnownValues(kind, ValidateTexts(kind)) \cup {NullValue(kind), UnknownValue(kind)}
    /\ o = NoValue
    /\ w = NoValue
    /\ req \in Requests
    /\ resp \in PriorResponses
    /\ ret = NoCall
    /\ calls = {}

\* A call of a validation method on v that left the response rsp
Validated(op, rsp) ==
    /\ ret = NoCall
    /\ w = NoValue
    /\ resp' = rsp
    /\ ret' = Returned(op, FALSE, <<>>, resp)
    /\ UNCHANGED <<v, o, w, req, calls>>

IPAddressValidateAttribute ==
    v.kind = "IPAddress" /\ Validated("ValidateAttribute", IPAddress_ValidateAttribute(v, req, resp))

IPAddressValidateParameter ==
    v.kind = "IPAddress" /\ Validated("ValidateParameter", IPAddress_ValidateParameter(v, req, resp))

IPv4AddressValidateAttribute ==
    v.kind = "IPv4Address" /\ Validated("ValidateAttribute", IPv4Address_ValidateAttribute(v, req, resp))

IPv4AddressValidateParameter ==
    v.kind = "IPv4Address" /\ Validated("ValidateParameter", IPv4Address_ValidateParameter(v, req, resp))

IPv6AddressValidateAttribute ==
    v.kind = "IPv6Address" /\ Validated("ValidateAttribute", IPv6Address_ValidateAttribute(v, req, resp))

IPv6AddressValidateParameter ==
    v.kind = "IPv6Address" /\ Validated("ValidateParameter", IPv6Address_ValidateParameter(v, req, resp))

IPPrefixValidateAttribute ==
    v.kind = "IPPrefix" /\ Validated("ValidateAttribute", IPPrefix_ValidateAttribute(v, req, resp))

IPPrefixValidateParameter ==
    v.kind = "IPPrefix" /\ Validated("ValidateParameter", IPPrefix_ValidateParameter(v, req, resp))

IPv4PrefixValidateAttribute ==
    v.kind = "IPv4Prefix" /\ Validated("ValidateAttribute", IPv4Prefix_ValidateAttribute(v, req, resp))

IPv4PrefixValidateParameter ==
    v.kind = "IPv4Prefix" /\ Validated("ValidateParameter", IPv4Prefix_ValidateParameter(v, req, resp))

IPv6PrefixValidateAttribute ==
    v.kind = "IPv6Prefix" /\ Validated("ValidateAttribute", IPv6Prefix_ValidateAttribute(v, req, resp))

IPv6PrefixValidateParameter ==
    v.kind = "IPv6Prefix" /\ Validated("ValidateParameter", IPv6Prefix_ValidateParameter(v, req, resp))

MACAddressValidateAttribute ==
    v.kind = "MACAddress" /\ Validated("ValidateAttribute", MACAddress_ValidateAttribute(v, req, resp))

MACAddressValidateParameter ==
    v.kind = "MACAddress" /\ Validated("ValidateParameter", MACAddress_ValidateParameter(v, req, resp))

NextValidate ==
    \/ IPAddressValidateAttribute
    \/ IPAddressValidateParameter
    \/ IPv4AddressValidateAttribute
    \/ IPv4AddressValidateParameter
    \/ IPv6AddressValidateAttribute
    \/ IPv6AddressValidateParameter
    \/ IPPrefixValidateAttribute
    \/ IPPrefixValidateParameter
    \/ IPv4PrefixValidateAttribute
    \/ IPv4PrefixValidateParameter
    \/ IPv6PrefixValidateAttribute
    \/ IPv6PrefixValidateParameter
    \/ MACAddressValidateAttribute
    \/ MACAddressValidateParameter

\* One value is validated
SpecValidate == InitValidate /\ [][NextValidate]_vars

-----------------------------------------------------------------------------
(* The typed accessors: one value, validated or turned into its address,   *)
(* prefix or hardware address                                              *)

\* A call of the typed accessor of v that returned r
Accessed(op, r) ==
    /\ ret = NoCall
    /\ w = NoValue
    /\ ret' = [op |-> op, match |-> FALSE, diags |-> r.diags, before |-> resp, value |-> r.value]
    /\ UNCHANGED <<v, o, w, req, resp, calls>>

IPAddressValueIPAddress ==
    v.kind = "IPAddress" /\ Accessed("ValueIPAddress", IPAddress_ValueIPAddress(v))

IPv4AddressValueIPv4Address ==
    v.kind = "IPv4Address" /\ Accessed("ValueIPv4Address", IPv4Address_ValueIPv4Address(v))

IPv6AddressValueIPv6Address ==
    v.kind = "IPv6Address" /\ Accessed("ValueIPv6Address", IPv6Address_ValueIPv6Address(v))

IPPrefixValueIPPrefix ==
    v.kind = "IPPrefix" /\ Accessed("ValueIPPrefix", IPPrefix_ValueIPPrefix(v))

IPv4PrefixValueIPv4Prefix ==
    v.kind = "IPv4Prefix" /\ Accessed("ValueIPv4Prefix", IPv4Prefix_ValueIPv4Prefix(v))

IPv6PrefixValueIPv6Prefix ==
    v.kind = "IPv6Prefix" /\ Accessed("ValueIPv6Prefix", IPv6Prefix_ValueIPv6Prefix(v))

MACAddressValueMACAddress ==
    v.kind = "MACAddress" /\ Accessed("ValueMACAddress", MACAddress_ValueMACAddress(v))

NextAccess ==
    \/ NextValidate
    \/ IPAddressValueIPAddress
    \/ IPv4AddressValueIPv4Address
    \/ IPv6AddressValueIPv6Address
    \/ IPPrefixValueIPPrefix
    \/ IPv4PrefixValueIPv4Prefix
    \/ IPv6PrefixValueIPv6Prefix
    \/ MACAddressValueMACAddress

\* One value is validated or its typed accessor is called
SpecAccess == InitValidate /\ [][NextAccess]_vars

-----------------------------------------------------------------------------
(* Validation into a response that already holds the results of other     *)
(* checks                                                                  *)

\* The error of a check of another parameter
OtherFuncError == NewArgumentFuncError(1, L("Another parameter failed"))

\* The responses a call is given here: at most MaxPrior diagnostics of other
\* validators, and the error of another check or none
AccumulatedResponses ==
    {Response(r.Diagnostics, e) : r \in PriorResponses, e \in {NoFuncError, OtherFuncError}}

\* The strings given to the validation of a kind here
AccumulateTexts(kind) ==
    CASE kind \in {"IPAddress", "IPv4Address", "IPv6Address"} -> AddrTexts
      [] kind \in {"IPPrefix", "IPv4Prefix", "IPv6Prefix"} -> PrefixTexts
      [] kind = "MACAddress" -> Texts(MACTable) \cup InvalidMACTexts

InitAccumulate ==
    /\ \E kind \in Kinds :
           v \in KnownValues(kind, AccumulateTexts(kind)) \cup {NullValue(kind), UnknownValue(kind)}
    /\ o = NoValue
    /\ w = NoValue
    /\ req \in Requests
    /\ resp \in AccumulatedResponses
    /\ ret = NoCall
    /\ calls = {}

\* One value is validated into such a response
SpecAccumulate == InitAccumulate /\ [][NextValidate]_vars


-----------------------------------------------------------------------------
(* The types of the kinds: a wire value is decoded to a value              *)

\* tftypes.NewValue(typ, val): val is a string (a number is held as its
\* decimal text), nil or tftypes.UnknownValue
WireValue(typ, state, value) == [type |-> typ, state |-> state, value |-> value]

\* fmt.Errorf
Errorf(msg) == [type |-> "errorString", in |-> <<>>, msg |-> msg, at |-> <<>>]

\* tftypes.Value.As(&s) for a string s: what s is set to, and the error
As(in) ==
    IF in.state = "unknown"
    THEN [s |-> <<>>, err |-> Errorf(L("unmarshaling unknown values is not supported"))]
    ELSE IF in.state = "null" THEN [s |-> <<>>, err |-> nil]
    ELSE IF in.type # "String"
    THEN [s |-> <<>>,
          err |-> Errorf(L("can't unmarshal tftypes." \o in.type \o " into *string, expected string"))]
    ELSE [s |-> in.value, err |-> nil]

\* What ValueFromTerraform returns; NoValue is the nil attr.Value
Decoded(value, err) == [value |-> value, err |-> err]

\* basetypes.StringType.ValueFromTerraform with the type of any wire value
\* checked
StringType_ValueFromTerraform_TypeChecked(in) ==
    IF in.type # "String" THEN Decoded(NoValue, As(WireValue(in.type, "known", in.value)).err)
    ELSE IF in.state = "unknown" THEN Decoded(StringValue("String", "unknown", <<>>), nil)
    ELSE IF in.state = "null" THEN Decoded(StringValue("String", "null", <<>>), nil)
    ELSE Decoded(StringValue("String", "known", As(in).s), nil)

\* basetypes.StringType.ValueFromTerraform
StringType_ValueFromTerraform(in) ==
    IF in.state = "unknown" THEN Decoded(StringValue("String", "unknown", <<>>), nil)
    ELSE IF in.state = "null" THEN Decoded(StringValue("String", "null", <<>>), nil)
    ELSE IF As(in).err # nil THEN Decoded(NoValue, As(in).err)
    ELSE Decoded(StringValue("String", "known", As(in).s), nil)

\* <Kind>Type.ValueFromString: the value of the kind that embeds in
ValueFromString(kind, in) ==
    [value |-> StringValue(kind, in.state, in.value), diags |-> <<>>]

\* <Kind>Type.ValueFromTerraform.  The value StringType returns is a
\* basetypes.StringValue and ValueFromString returns no diagnostics, so the
\* two "unexpected" errors are not returned.
ValueFromTerraform(kind, in) ==
    IF StringType_ValueFromTerraform(in).err # nil
    THEN Decoded(NoValue, StringType_ValueFromTerraform(in).err)
    ELSE IF StringType_ValueFromTerraform(in).value.kind # "String"
    THEN Decoded(NoValue, Errorf(L("unexpected value type of ")))
    ELSE IF ValueFromString(kind, StringType_ValueFromTerraform(in).value).diags # <<>>
    THEN Decoded(NoValue, Errorf(L("unexpected error converting StringValue to StringValuable: ")))
    ELSE Decoded(ValueFromString(kind, StringType_ValueFromTerraform(in).value).value, nil)


\* fmt.Errorf("expected String value, received %T with value: %v", in, in)
\* with tftypes.Value.String
ExpectedString(in) ==
    Errorf(L("expected String value, received tftypes.Value with value: ")
           \o L("tftypes." \o in.type \o "<")
           \o (IF in.state = "null" THEN L("null")
               ELSE IF in.state = "unknown" THEN L("unknown") ELSE Quote(in.value))
           \o L(">"))

\* The diagnostic of a wire value that is no string
TypeValidationError(path, summary, err) ==
    AddAttributeError(<<>>, path, summary,
        L("An unexpected error was encountered trying to validate an attribute value. This is always an error in the provider. ")
            \o L("Please report the following to the provider developer:\n\n") \o Error(err))

\* IPv4AddressType.Validate
IPv4AddressType_Validate(in, path) ==
    IF in.type = "nil" THEN <<>>
    ELSE IF in.type # "String"
    THEN TypeValidationError(path, "IPv4 Address Type Validation Error", ExpectedString(in))
    ELSE IF in.state # "known" THEN <<>>
    ELSE IF As(in).err # nil
    THEN TypeValidationError(path, "IPv4 Address Type Validation Error", As(in).err)
    ELSE IF ParseAddr(As(in).s).err # nil
    THEN AddAttributeError(<<>>, path, "Invalid IPv4 Address String Value",
             L("A string value was provided that is not valid IPv4 string format.\n\n") \o L("Given Value: ")
                 \o C(As(in).s) \o L("\n") \o L("Error: ") \o Error(ParseAddr(As(in).s).err))
    ELSE IF Is6(ParseAddr(As(in).s).ip)
    THEN AddAttributeError(<<>>, path, "Invalid IPv4 Address String Value",
             L("An IPv6 string format was provided, string value must be IPv4 format.\n\n") \o L("Given Value: ")
                 \o C(As(in).s) \o L("\n"))
    ELSE IF ~IsValid(ParseAddr(As(in).s).ip) \/ ~Is4(ParseAddr(As(in).s).ip)
    THEN AddAttributeError(<<>>, path, "Invalid IPv4 Address String Value",
             L("A string value was provided that is not valid IPv4 string format.\n\n") \o L("Given Value: ")
                 \o C(As(in).s) \o L("\n"))
    ELSE <<>>

\* IPv6AddressType.Validate that reports an IPv4 address as a string that is
\* not valid
IPv6AddressType_Validate_NoMismatch(in, path) ==
    IF in.type = "nil" THEN <<>>
    ELSE IF in.type # "String"
    THEN TypeValidationError(path, "IPv6 Address Type Validation Error", ExpectedString(in))
    ELSE IF in.state # "known" THEN <<>>
    ELSE IF As(in).err # nil
    THEN TypeValidationError(path, "IPv6 Address Type Validation Error", As(in).err)
    ELSE IF ParseAddr(As(in).s).err # nil
    THEN AddAttributeError(<<>>, path, "Invalid IPv6 Address String Value",
             L("A string value was provided that is not valid IPv6 string format (RFC 4291).\n\n") \o L("Given Value: ")
                 \o C(As(in).s) \o L("\n") \o L("Error: ") \o Error(ParseAddr(As(in).s).err))
    ELSE IF Is4(ParseAddr(As(in).s).ip)
    THEN AddAttributeError(<<>>, path, "Invalid IPv6 Address String Value",
             L("A string value was provided that is not valid IPv6 string format (RFC 4291).\n\n") \o L("Given Value: ")
                 \o C(As(in).s) \o L("\n"))
    ELSE IF ~IsValid(ParseAddr(As(in).s).ip) \/ ~Is6(ParseAddr(As(in).s).ip)
    THEN AddAttributeError(<<>>, path, "Invalid IPv6 Address String Value",
             L("A string value was provided that is not valid IPv6 string format (RFC 4291).\n\n") \o L("Given Value: ")
                 \o C(As(in).s) \o L("\n"))
    ELSE <<>>

\* IPv6AddressType.Validate
IPv6AddressType_Validate(in, path) ==
    IF in.type = "nil" THEN <<>>
    ELSE IF in.type # "String"
    THEN TypeValidationError(path, "IPv6 Address Type Validation Error", ExpectedString(in))
    ELSE IF in.state # "known" THEN <<>>
    ELSE IF As(in).err # nil
    THEN TypeValidationError(path, "IPv6 Address Type Validation Error", As(in).err)
    ELSE IF ParseAddr(As(in).s).err # nil
    THEN AddAttributeError(<<>>, path, "Invalid IPv6 Address String Value",
             L("A string value was provided that is not valid IPv6 string format (RFC 4291).\n\n") \o L("Given Value: ")
                 \o C(As(in).s) \o L("\n") \o L("Error: ") \o Error(ParseAddr(As(in).s).err))
    ELSE IF Is4(ParseAddr(As(in).s).ip)
    THEN AddAttributeError(<<>>, path, "Invalid IPv6 Address String Value",
             L("An IPv4 string format was provided, string value must be IPv6 string format or IPv4-Mapped IPv6 string format (RFC 4291).\n\n") \o L("Given Value: ")
                 \o C(As(in).s) \o L("\n"))
    ELSE IF ~IsValid(ParseAddr(As(in).s).ip) \/ ~Is6(ParseAddr(As(in).s).ip)
    THEN AddAttributeError(<<>>, path, "Invalid IPv6 Address String Value",
             L("A string value was provided that is not valid IPv6 string format (RFC 4291).\n\n") \o L("Given Value: ")
                 \o C(As(in).s) \o L("\n"))
    ELSE <<>>

\* IPv4PrefixType.Validate
IPv4PrefixType_Validate(in, path) ==
    IF in.type = "nil" THEN <<>>
    ELSE IF in.type # "String"
    THEN TypeValidationError(path, "IPv4 Prefix Type Validation Error", ExpectedString(in))
    ELSE IF in.state # "known" THEN <<>>
    ELSE IF As(in).err # nil
    THEN TypeValidationError(path, "IPv4 Prefix Type Validation Error", As(in).err)
    ELSE IF ParsePrefix(As(in).s).err # nil
    THEN AddAttributeError(<<>>, path, "Invalid IPv4 CIDR String Value",
             L("A string value was provided that is not valid IPv4 CIDR string format (RFC 4632).\n\n") \o L("Given Value: ")
                 \o C(As(in).s) \o L("\n") \o L("Error: ") \o Error(ParsePrefix(As(in).s).err))
    ELSE IF Is6(PrefixAddr(ParsePrefix(As(in).s).p))
    THEN AddAttributeError(<<>>, path, "Invalid IPv4 CIDR String Value",
             L("An IPv6 CIDR string format was provided, string value must be IPv4 CIDR string format (RFC 4632).\n\n") \o L("Given Value: ")
                 \o C(As(in).s) \o L("\n"))
    ELSE IF ~PrefixIsValid(ParsePrefix(As(in).s).p) \/ ~Is4(PrefixAddr(ParsePrefix(As(in).s).p))
    THEN AddAttributeError(<<>>, path, "Invalid IPv4 CIDR String Value",
             L("A string value was provided that is not valid IPv4 CIDR string format (RFC 4632).\n\n") \o L("Given Value: ")
                 \o C(As(in).s) \o L("\n"))
    ELSE <<>>

\* IPv6PrefixType.Validate
IPv6PrefixType_Validate(in, path) ==
    IF in.type = "nil" THEN <<>>
    ELSE IF in.type # "String"
    THEN TypeValidationError(path, "IPv6 Prefix Type Validation Error", ExpectedString(in))
    ELSE IF in.state # "known" THEN <<>>
    ELSE IF As(in).err # nil
    THEN TypeValidationError(path, "IPv6 Prefix Type Validation Error", As(in).err)
    ELSE IF ParsePrefix(As(in).s).err # nil
    THEN AddAttributeError(<<>>, path, "Invalid IPv6 CIDR String Value",
             L("A string value was provided that is not valid IPv6 CIDR string format (RFC 4291).\n\n") \o L("Given Value: ")
                 \o C(As(in).s) \o L("\n") \o L("Error: ") \o Error(ParsePrefix(As(in).s).err))
    ELSE IF Is4(PrefixAddr(ParsePrefix(As(in).s).p))
    THEN AddAttributeError(<<>>, path, "Invalid IPv6 CIDR String Value",
             L("An IPv4 CIDR string format was provided, string value must be IPv6 CIDR string format (RFC 4291).\n\n") \o L("Given Value: ")
                 \o C(As(in).s) \o L("\n"))
    ELSE IF ~PrefixIsValid(ParsePrefix(As(in).s).p) \/ ~Is6(PrefixAddr(ParsePrefix(As(in).s).p))
    THEN AddAttributeError(<<>>, path, "Invalid IPv6 CIDR String Value",
             L("A string value was provided that is not valid IPv6 CIDR string format (RFC 4291).\n\n") \o L("Given Value: ")
                 \o C(As(in).s) \o L("\n"))
    ELSE <<>>

WireTypes == {"String", "Number", "Bool"}

\* The wire values given to the type of a kind: the strings its validation
\* is given, a number, and null and unknown of every wire type
WireValues(kind) ==
    {WireValue("String", "known", text) : text \in ValidateTexts(kind)}
    \cup {WireValue("Number", "known", <<"1", "2", "3">>)}
    \cup {WireValue(typ, state, <<>>) : typ \in WireTypes, state \in {"null", "unknown"}}

\* The arguments of a call on the type of a kind: the wire value and a path
TypeRequests(kind) ==
    [Path : {"test"}, Position : {0}, Type : {kind}, In : WireValues(kind)]

\* No value is held yet
InitType ==
    /\ v = NoValue
    /\ o = NoValue
    /\ w = NoValue
    /\ \E kind \in Kinds : req \in TypeRequests(kind)
    /\ resp = Response(<<>>, NoFuncError)
    /\ ret = NoCall
    /\ calls = {}

\* t.ValueFromTerraform(ctx, in): the caller holds the value returned
TypeValueFromTerraform ==
    /\ ret = NoCall
    /\ v' = ValueFromTerraform(req.Type, req.In).value
    /\ ret' = [op |-> "ValueFromTerraform", match |-> FALSE, diags |-> <<>>, before |-> resp,
               err |-> ValueFromTerraform(req.Type, req.In).err]
    /\ UNCHANGED <<o, w, req, resp, calls>>

\* t.Validate(ctx, in, path) of the type of a family-specific kind
TypeValidate ==
    /\ ret = NoCall
    /\ req.Type \in {"IPv4Address", "IPv6Address", "IPv4Prefix", "IPv6Prefix"}
    /\ ret' = Returned("Validate", FALSE,
                  CASE req.Type = "IPv4Address" -> IPv4AddressType_Validate(req.In, req.Path)
                    [] req.Type = "IPv6Address" -> IPv6AddressType_Validate(req.In, req.Path)
                    [] req.Type = "IPv4Prefix" -> IPv4PrefixType_Validate(req.In, req.Path)
                    [] req.Type = "IPv6Prefix" -> IPv6PrefixType_Validate(req.In, req.Path),
                  resp)
    /\ UNCHANGED <<v, o, w, req, resp, calls>>

NextType ==
    \/ TypeValueFromTerraform
    \/ TypeValidate

\* A wire value is given to the type of a kind
SpecType == InitType /\ [][NextType]_vars


-----------------------------------------------------------------------------
(* Concurrent calls: goroutines call the methods of IPAddress on the two   *)
(* values v and o.  Here req[g] is the call of goroutine g, ret[g] its     *)
(* frame, and resp[p] the response object p that a call is given a pointer *)
(* to.                                                                     *)

MaxGoroutines == 2

Goroutines == 1..MaxGoroutines

ConcurrentOps == {"ValidateAttribute", "ValidateParameter", "StringSemanticEquals", "ValueIPAddress"}

\* The call of goroutine g: the method, the value it is called on, and the
\* response object it is given, its own or (shared) that of goroutine 1
GoCall(g, op, recv, shared) ==
    [op |-> op, recv |-> recv, Resp |-> IF shared THEN 1 ELSE g, Path |-> "test", Position |-> 0]

ValueOf(name) == IF name = "v" THEN v ELSE o

\* The operand of a comparison is the other value
OtherOf(name) == IF name = "v" THEN o ELSE v

\* What a call gives back: the response it leaves, and what it returns
Outcome(rsp, match, diags, value) ==
    [resp |-> rsp, match |-> match, diags |-> diags, value |-> value]

\* The body of the method op on the receiver x (a copy: the methods have
\* value receivers), the operand y, and the response rsp read through the
\* pointer
Run(op, x, y, rq, rsp) ==
    CASE op = "ValidateAttribute" ->
             Outcome(IPAddress_ValidateAttribute(x, rq, rsp), FALSE, <<>>, ZeroAddr)
      [] op = "ValidateParameter" ->
             Outcome(IPAddress_ValidateParameter(x, rq, rsp), FALSE, <<>>, ZeroAddr)
      [] op = "StringSemanticEquals" ->
             Outcome(rsp, IPAddress_StringSemanticEquals(x, y).match,
                     IPAddress_StringSemanticEquals(x, y).diags, ZeroAddr)
      [] op = "ValueIPAddress" ->
             Outcome(rsp, FALSE, IPAddress_ValueIPAddress(x).diags, IPAddress_ValueIPAddress(x).value)

Fresh == Response(<<>>, NoFuncError)

\* The frame of a call: where it is, its copies of the receiver and the
\* operand, the response it read, and what the body made of them
Frame(pc, x, y, before, out) == [pc |-> pc, x |-> x, y |-> y, before |-> before, out |-> out]

\* Two values, one call for each goroutine, fresh responses
InitConcurrent ==
    /\ v \in KnownValues("IPAddress", {<<":", ":", "1">>, <<"1", ".", "2", ".", "3">>})
    /\ o \in KnownValues("IPAddress", {<<"0", ":", "0", ":", "0", ":", "0", ":", "0", ":", "0", ":", "0", ":", "1">>})
    /\ w = NoValue
    /\ \E c \in [Goroutines -> [op : ConcurrentOps, recv : {"v", "o"}, shared : BOOLEAN]] :
           req = [g \in Goroutines |-> GoCall(g, c[g].op, c[g].recv, c[g].shared)]
    /\ resp = [p \in Goroutines |-> Fresh]
    /\ ret = [g \in Goroutines |-> Frame("ready", NoValue, NoValue, Fresh, Outcome(Fresh, FALSE, <<>>, ZeroAddr))]
    /\ calls = {}

\* The response object of the call of g is set to rsp, and every other
\* response object as well
StoreResponse_Everywhere(g, rsp) == [p \in DOMAIN resp |-> rsp]

\* resp.Diagnostics.AddAttributeError, resp.Error = ...: the response object
\* the call of g points to is set to rsp
StoreResponse(g, rsp) == [resp EXCEPT ![req[g].Resp] = rsp]

\* Goroutine g calls its method: the receiver and the operand are copied,
\* the response is read through the pointer, and the body runs on them
GoEnter(g) ==
    /\ ret[g].pc = "ready"
    /\ ret' = [ret EXCEPT ![g] =
                  Frame("running", ValueOf(req[g].recv), OtherOf(req[g].recv), resp[req[g].Resp],
                        Run(req[g].op, ValueOf(req[g].recv), OtherOf(req[g].recv),
                            req[g], resp[req[g].Resp]))]
    /\ UNCHANGED <<v, o, w, req, resp, calls>>

\* The call of g returns; a validation that reports writes the response it
\* built through the pointer
GoReturn(g) ==
    /\ ret[g].pc = "running"
    /\ ret' = [ret EXCEPT ![g].pc = "done"]
    /\ resp' = IF ret[g].out.resp = ret[g].before THEN resp
               ELSE StoreResponse(g, ret[g].out.resp)
    /\ UNCHANGED <<v, o, w, req, calls>>

NextConcurrent ==
    \/ \E g \in Goroutines : GoEnter(g)
    \/ \E g \in Goroutines : GoReturn(g)

\* The calls of the goroutines in any interleaving
SpecConcurrent == InitConcurrent /\ [][NextConcurrent]_vars


-----------------------------------------------------------------------------
(* Equal: one value is compared with another                               *)

\* <Kind>.Equal that does not look at the type of the other value
Equal_AnyKind(x, other) ==
    /\ x.state = other.state
    /\ x.state = "known" => x.value = other.value

\* <Kind>.Equal: the other value is of the type of the receiver, and
\* basetypes.StringValue.Equal of the embedded values: the same state and,
\* when known, the same string
Equal(x, other) ==
    /\ x.kind = other.kind
    /\ x.state = other.state
    /\ x.state = "known" => x.value = other.value

\* The strings of the values that are compared with Equal: valid addresses
\* and prefixes, and the octets of V4Values with zeros in front
EqualTexts(kind) ==
    IF kind = "IPv4Address"
    THEN Texts(V4Table) \cup {V4Spell(octs, pads) : octs \in V4Values, pads \in [1..4 -> 0..MaxPad]}
    ELSE {a \o <<"/">> \o b :
             a \in Texts(V4Table) \cup {V4Spell(octs, pads) : octs \in V4Values, pads \in [1..4 -> 0..MaxPad]},
             b \in {<<"8">>, <<"0", "8">>}}

\* A receiver of a kind without StringSemanticEquals, and an operand of its
\* kind or of another
InitEqual ==
    /\ \E kind \in Kinds \ SemanticKinds :
           /\ v \in KnownValues(kind, EqualTexts(kind)) \cup {NullValue(kind), UnknownValue(kind)}
           /\ o \in KnownValues(kind, EqualTexts(kind)) \cup {NullValue(kind), UnknownValue(kind)}
                      \cup OtherKindOperands(kind)
    /\ w = NoValue
    /\ req \in Requests
    /\ resp = Response(<<>>, NoFuncError)
    /\ ret = NoCall
    /\ calls = {}

\* v.Equal(o)
ValueEqual ==
    /\ ret = NoCall
    /\ ret' = Returned("Equal", Equal(v, o), <<>>, resp)
    /\ UNCHANGED <<v, o, w, req, resp, calls>>

NextEqual ==
    \/ ValueEqual

\* Two values are compared with Equal
SpecEqual == InitEqual /\ [][NextEqual]_vars

-----------------------------------------------------------------------------
(* Semantic equality                                                       *)

\* The last call compared v with o, two known values of the kind
Compares(kind) ==
    /\ ret.op = "StringSemanticEquals"
    /\ w = NoValue
    /\ v.kind = kind /\ v.state = "known"
    /\ o.kind = kind /\ o.state = "known"

\* x holds a valid address of the kind: every address for IPAddress, the
\* IPv6 addresses for IPv6Address
ValidAddress(kind, x) ==
    \E m \in Meanings(AddrTable \cup DocumentedTable, x.value) :
        kind = "IPv6Address" => m.family = 6

AddrMeaningOf(x) == CHOOSE m \in AddrTable \cup DocumentedTable : m.text = x.value

\* x holds a valid prefix of the kind
ValidPrefix(kind, x) ==
    \E m \in Meanings(PrefixTable, x.value) : kind = "IPv6Prefix" => m.family = 6

PrefixMeaningOf(x) == CHOOSE m \in PrefixTable : m.text = x.value

ValidMAC(x) == Meanings(MACTable, x.value) # {}

MACMeaningOf(x) == CHOOSE m \in MACTable : m.text = x.value

\* C1 as stated: for IPAddress and IPv6Address, two known valid values are
\* semantically equal if and only if their addresses have the same family
\* and the same bytes.
C1_EqualIffSameFamilyAndBytes ==
    \A kind \in {"IPAddress", "IPv6Address"} :
        (Compares(kind) /\ ValidAddress(kind, v) /\ ValidAddress(kind, o)) =>
            (ret.match <=> /\ AddrMeaningOf(v).family = AddrMeaningOf(o).family
                           /\ AddrMeaningOf(v).bytes = AddrMeaningOf(o).bytes)

\* C1, amended: for IPAddress and IPv6Address, two known valid values are
\* semantically equal if and only if their addresses have the same family,
\* the same bytes and the same zone.
C1_EqualIffSameFamilyBytesAndZone ==
    \A kind \in {"IPAddress", "IPv6Address"} :
        (Compares(kind) /\ ValidAddress(kind, v) /\ ValidAddress(kind, o)) =>
            (ret.match <=> /\ AddrMeaningOf(v).family = AddrMeaningOf(o).family
                           /\ AddrMeaningOf(v).bytes = AddrMeaningOf(o).bytes
                           /\ AddrMeaningOf(v).zone = AddrMeaningOf(o).zone)

\* Two spellings of one zoned address were found equal
C1_Witness ==
    /\ Compares("IPv6Address")
    /\ ValidAddress("IPv6Address", v) /\ ValidAddress("IPv6Address", o)
    /\ v.value # o.value
    /\ AddrMeaningOf(v).zone # <<>>
    /\ ret.match

\* Two prefixes of one family and bit-length whose addresses differ, and
\* only after the first bits bits
OnlyHostBitsDiffer(a, b) ==
    /\ a.family = b.family /\ a.bits = b.bits
    /\ a.bytes # b.bytes
    /\ Masked(a.bytes, a.bits) = Masked(b.bytes, b.bits)

C3_EqualIffSameOctets ==
    (Compares("MACAddress") /\ ValidMAC(v) /\ ValidMAC(o)) =>
        /\ ret.match <=> MACMeaningOf(v).bytes = MACMeaningOf(o).bytes
        /\ Len(MACMeaningOf(v).bytes) # Len(MACMeaningOf(o).bytes) => ~ret.match

\* An address written with dots and the same address written with another
\* delimiter, in another case, were found equal
C3_Witness ==
    /\ Compares("MACAddress") /\ ValidMAC(v) /\ ValidMAC(o)
    /\ \E i \in 1..Len(v.value) : v.value[i] = "."
    /\ \A i \in 1..Len(o.value) : o.value[i] # "."
    /\ \E i \in 1..Len(v.value) : v.value[i] \in {"a", "b", "c", "d", "e", "f"}
    /\ \E i \in 1..Len(o.value) : o.value[i] \in {"A", "B", "C", "D", "E", "F"}
    /\ ret.match

C6_DocumentedPairIsEqual ==
    (/\ Compares("IPPrefix")
     /\ v.value = <<"2", "0", "0", "1", ":", "0", "D", "B", "8", ":", "0", ":", "0", ":", "0", ":", "0", ":", "0", ":", "0", "C", "D", "3", "/", "6", "0">>
     /\ o.value = <<"2", "0", "0", "1", ":", "0", "D", "B", "8", ":", ":", "C", "D", "3", "0", "/", "6", "0">>) => ret.match

\* C4: for each kind with StringSemanticEquals, "a.StringSemanticEquals(b)
\* returns true" is reflexive, symmetric and transitive over the values of
\* the kind.
C4_EquivalenceRelation ==
    w # NoValue =>
        /\ \A c \in calls : c.recv = c.arg => c.match
        /\ \A c, d \in calls : (c.recv = d.arg /\ c.arg = d.recv) => c.match = d.match
        /\ \A c, d, e \in calls :
               (/\ c.arg = d.recv /\ e.recv = c.recv /\ e.arg = d.arg
                /\ c.match /\ d.match) => e.match

\* Three different values were found equal: the first to the second, the
\* second to the third and the first to the third
C4_Witness ==
    /\ w # NoValue
    /\ \E c, d, e \in calls :
           /\ c.recv # c.arg /\ d.recv # d.arg /\ c.recv # d.arg
           /\ c.arg = d.recv /\ e.recv = c.recv /\ e.arg = d.arg
           /\ c.match /\ d.match /\ e.match
           /\ c.recv.state = "known" /\ d.recv.state = "known" /\ d.arg.state = "known"

-----------------------------------------------------------------------------
(* Validation                                                              *)

\* The last call validated v, a known value of the kind, with the method op
Validates(kind, op) == ret.op = op /\ v.kind = kind /\ v.state = "known"

\* The diagnostics the last call added to those it was given
Added == SubSeq(resp.Diagnostics, Len(ret.before.Diagnostics) + 1, Len(resp.Diagnostics))

\* The last call reported nothing
ReportedNothing == resp = ret.before

\* The summary of every diagnostic of a kind
Title(kind) ==
    CASE kind = "IPAddress" -> "Invalid IP Address String Value"
      [] kind = "IPv4Address" -> "Invalid IPv4 Address String Value"
      [] kind = "IPv6Address" -> "Invalid IPv6 Address String Value"
      [] kind = "IPPrefix" -> "Invalid IP CIDR String Value"
      [] kind = "IPv4Prefix" -> "Invalid IPv4 CIDR String Value"
      [] kind = "IPv6Prefix" -> "Invalid IPv6 CIDR String Value"
      [] kind = "MACAddress" -> "Invalid MAC Address String Value"

\* The sentence that says the string is of the other family
MismatchSentence(kind) ==
    CASE kind = "IPv4Address" ->
             "An IPv6 string format was provided, string value must be IPv4 format.\n\n"
      [] kind = "IPv6Address" ->
             "An IPv4 string format was provided, string value must be IPv6 string format or IPv4-Mapped IPv6 string format (RFC 4291).\n\n"
      [] kind = "IPv4Prefix" ->
             "An IPv6 CIDR string format was provided, string value must be IPv4 CIDR string format (RFC 4632).\n\n"
      [] kind = "IPv6Prefix" ->
             "An IPv4 CIDR string format was provided, string value must be IPv6 CIDR string format (RFC 4291).\n\n"

\* The sentence that says the string is no address, prefix or MAC address
StructuralSentence(kind) ==
    CASE kind = "IPAddress" ->
             "A string value was provided that is not valid IPv4 or IPv6 string format (RFC 791, RFC 4291).\n\n"
      [] kind = "IPv4Address" ->
             "A string value was provided that is not valid IPv4 string format.\n\n"
      [] kind = "IPv6Address" ->
             "A string value was provided that is not valid IPv6 string format (RFC 4291).\n\n"
      [] kind = "IPPrefix" ->
             "A string value was provided that is not valid IPv4 or IPv6 CIDR string format (RFC 4632, RFC 4291).\n\n"
      [] kind = "IPv4Prefix" ->
             "A string value was provided that is not valid IPv4 CIDR string format (RFC 4632).\n\n"
      [] kind = "IPv6Prefix" ->
             "A string value was provided that is not valid IPv6 CIDR string format (RFC 4291).\n\n"
      [] kind = "MACAddress" ->
             "A string value was provided that is not valid MAC string format.\n\n"

FamilyKinds == {"IPv4Address", "IPv6Address", "IPv4Prefix", "IPv6Prefix"}

MismatchSentences == {MismatchSentence(kind) : kind \in FamilyKinds}

\* The text has a part that is the literal s
HasPart(text, s) == \E i \in 1..Len(text) : text[i] = L(s)[1]

\* The text has an "Error: " line
HasErrorLine(text) == HasPart(text, "Error: ")

\* What parsing the string of x as a value of the kind gives: the error,
\* and the address or the address of the prefix
Parsed(kind, x) ==
    IF kind \in {"IPPrefix", "IPv4Prefix", "IPv6Prefix"}
    THEN [err |-> ParsePrefix(x.value).err, ip |-> PrefixAddr(ParsePrefix(x.value).p)]
    ELSE [err |-> ParseAddr(x.value).err, ip |-> ParseAddr(x.value).ip]

\* The string of x parses, to an address or prefix of the family the kind
\* does not take
OtherFamily(kind, x) ==
    /\ Parsed(kind, x).err = nil
    /\ IF kind \in {"IPv4Address", "IPv4Prefix"} THEN Is6(Parsed(kind, x).ip)
       ELSE Is4(Parsed(kind, x).ip)

\* What the last call reported: the text of the one diagnostic it added, or
\* of the function error it set; no text if that is not what it did
Reported ==
    IF ret.op = "ValidateAttribute"
    THEN IF /\ Len(resp.Diagnostics) = Len(ret.before.Diagnostics) + 1
            /\ SubSeq(resp.Diagnostics, 1, Len(ret.before.Diagnostics)) = ret.before.Diagnostics
            /\ resp.Error = ret.before.Error
            /\ Added[1].severity = "error" /\ Added[1].path = req.Path
            /\ Added[1].summary = Title(v.kind)
         THEN Added[1].detail
         ELSE <<>>
    ELSE IF /\ resp.Diagnostics = ret.before.Diagnostics
            /\ resp.Error # NoFuncError
            /\ resp.Error.FunctionArgument = req.Position
            /\ Len(resp.Error.Text) > 2
            /\ SubSeq(resp.Error.Text, 1, 2) = L(Title(v.kind)) \o L(": ")
         THEN SubSeq(resp.Error.Text, 3, Len(resp.Error.Text))
         ELSE <<>>

\* C7: a family-specific kind reports a string of the other family with one
\* diagnostic that carries the family-mismatch message and no "Error:" line,
\* and a string that does not parse with the structural message, never with
\* the family-mismatch message.
C7_MismatchApartFromMalformed ==
    \A kind \in FamilyKinds : \A op \in {"ValidateAttribute", "ValidateParameter"} :
        Validates(kind, op) =>
            /\ OtherFamily(kind, v) => Reported = GivenValue(MismatchSentence(kind), v)
            /\ Parsed(kind, v).err # nil =>
                   /\ Reported = GivenValueError(StructuralSentence(kind), v, Parsed(kind, v).err)
                   /\ \A s \in MismatchSentences : ~HasPart(Reported, s)

\* An IPv4Prefix was given an IPv6 prefix and added the one diagnostic
C7_Witness ==
    /\ Validates("IPv4Prefix", "ValidateAttribute")
    /\ OtherFamily("IPv4Prefix", v)
    /\ Len(Added) = 1
    /\ HasPart(Added[1].detail, MismatchSentence("IPv4Prefix"))
    /\ ~HasErrorLine(Added[1].detail)

\* C8: the union kinds IPAddress and IPPrefix report nothing for a known
\* string that parses as an IPv4 or an IPv6 address or prefix, and report a
\* family mismatch for no string.
C8_UnionTakesBothFamilies ==
    \A kind \in {"IPAddress", "IPPrefix"} : \A op \in {"ValidateAttribute", "ValidateParameter"} :
        Validates(kind, op) =>
            /\ Parsed(kind, v).err = nil => ReportedNothing
            /\ \A s \in MismatchSentences :
                   /\ \A i \in 1..Len(resp.Diagnostics) : ~HasPart(resp.Diagnostics[i].detail, s)
                   /\ ~HasPart(resp.Error.Text, s)

\* An IPAddress that holds an IPv6 address was validated and nothing reported
C8_Witness ==
    /\ Validates("IPAddress", "ValidateAttribute")
    /\ Parsed("IPAddress", v).err = nil /\ Is6(Parsed("IPAddress", v).ip)
    /\ ReportedNothing

\* The text is a valid IPv6 literal whose last 32 bits are written in dotted
\* decimal, IPv4-mapped (::ffff:a.b.c.d) or IPv4-compatible (::a.b.c.d)
EmbeddedIPv4(m) ==
    /\ m.family = 6
    /\ \E i \in 1..Len(m.text) : m.text[i] = "."
    /\ SubSeq(m.bytes, 1, 10) = Zeros(10)
    /\ SubSeq(m.bytes, 11, 12) \in {<<0, 0>>, <<255, 255>>}

EmbeddedAddress(x) == \E m \in Meanings(AddrTable, x.value) : EmbeddedIPv4(m)

EmbeddedPrefix(x) == \E m \in Meanings(PrefixTable, x.value) : EmbeddedIPv4(m)

\* C9: an IPv6 literal with an IPv4 address in dotted decimal at its end is
\* IPv6: IPv6Address and IPv6Prefix accept it and report nothing,
\* IPv4Address and IPv4Prefix report the family mismatch.
C9_EmbeddedIPv4IsIPv6 ==
    \A op \in {"ValidateAttribute", "ValidateParameter"} :
        /\ (Validates("IPv6Address", op) /\ EmbeddedAddress(v)) => ReportedNothing
        /\ (Validates("IPv6Prefix", op) /\ EmbeddedPrefix(v)) => ReportedNothing
        /\ (Validates("IPv4Address", op) /\ EmbeddedAddress(v)) =>
               Reported = GivenValue(MismatchSentence("IPv4Address"), v)
        /\ (Validates("IPv4Prefix", op) /\ EmbeddedPrefix(v)) =>
               Reported = GivenValue(MismatchSentence("IPv4Prefix"), v)

\* An IPv4Address that holds ::ffff:192.168.255.255 was validated and one
\* diagnostic added
C9_Witness ==
    /\ Validates("IPv4Address", "ValidateAttribute")
    /\ v.value = <<":", ":", "f", "f", "f", "f", ":", "1", "9", "2", ".", "1", "6", "8", ".", "2", "5", "5", ".", "2", "5", "5">>
    /\ EmbeddedAddress(v)
    /\ Len(Added) = 1

\* The fields of s between its dots
RECURSIVE DotFields(_)
DotFields(s) ==
    IF IndexByteString(s, ".") < 0 THEN <<s>>
    ELSE <<Upto(s, IndexByteString(s, "."))>> \o DotFields(From(s, IndexByteString(s, ".") + 1))

AllDigits(f) == f # <<>> /\ \A i \in 1..Len(f) : IsDigit(f[i])

\* A decimal octet: 0 .. 255 with no zero in front
IsOctet(f) ==
    /\ AllDigits(f) /\ Len(f) <= 3
    /\ Len(f) = 1 \/ f[1] # "0"
    /\ DecimalValue(f) <= 255

\* Four decimal octets with dots between them
IsDottedQuad(s) == Len(DotFields(s)) = 4 /\ \A i \in 1..4 : IsOctet(DotFields(s)[i])

\* Four fields of digits with dots between them, one with a zero in front
HasLeadingZeroOctet(s) ==
    /\ Len(DotFields(s)) = 4
    /\ \A i \in 1..4 : AllDigits(DotFields(s)[i])
    /\ \E i \in 1..4 : Len(DotFields(s)[i]) > 1 /\ DotFields(s)[i][1] = "0"

HasSlash(s) == LastIndexByteString(s, "/") >= 0

\* What is before and after the last '/' of a prefix text
AddressPart(s) == Upto(s, LastIndexByteString(s, "/"))

BitsPart(s) == From(s, LastIndexByteString(s, "/") + 1)

\* A bit-length of an IPv4 prefix: 0 .. 32 with no zero in front
IsIPv4Bits(b) ==
    /\ AllDigits(b) /\ Len(b) <= 2
    /\ Len(b) = 1 \/ b[1] # "0"
    /\ DecimalValue(b) <= 32

\* The address of the string of a value of the kind
AddressOf(kind, s) == IF kind \in {"IPPrefix", "IPv4Prefix"} THEN AddressPart(s) ELSE s

\* C10: IPv4Address accepts a known string if and only if it is four decimal
\* octets between dots, each 0 .. 255 with no zero in front, and so does
\* IPv4Prefix of the address of a prefix with a valid bit-length; every kind
\* that takes IPv4 reports an octet with a zero in front as a string that
\* does not parse.
C10_IPv4IsDottedQuad ==
    \A op \in {"ValidateAttribute", "ValidateParameter"} :
        /\ Validates("IPv4Address", op) => (ReportedNothing <=> IsDottedQuad(v.value))
        /\ (Validates("IPv4Prefix", op) /\ HasSlash(v.value) /\ IsIPv4Bits(BitsPart(v.value))) =>
               (ReportedNothing <=> IsDottedQuad(AddressPart(v.value)))
        /\ \A kind \in {"IPAddress", "IPv4Address", "IPPrefix", "IPv4Prefix"} :
               (/\ Validates(kind, op)
                /\ kind \in {"IPPrefix", "IPv4Prefix"} => HasSlash(v.value)
                /\ HasLeadingZeroOctet(AddressOf(kind, v.value))) =>
                   /\ Reported # <<>>
                   /\ Reported[1] = L(StructuralSentence(kind))[1]
                   /\ HasErrorLine(Reported)

\* An IPv4Prefix that holds 127.0.0.000/8 was validated and one diagnostic
\* added
C10_Witness ==
    /\ Validates("IPv4Prefix", "ValidateAttribute")
    /\ v.value = <<"1", "2", "7", ".", "0", ".", "0", ".", "0", "0", "0", "/", "8">>
    /\ Len(Added) = 1
    /\ HasErrorLine(Added[1].detail)

-----------------------------------------------------------------------------
(* Null and unknown values                                                 *)

\* The last call was the method op on v, a value of the kind that is null or
\* unknown
OnNullOrUnknown(kind, op) == ret.op = op /\ v.kind = kind /\ (IsNull(v) \/ IsUnknown(v))

\* C11: ValidateAttribute and ValidateParameter of every kind leave the
\* response as it was given when the value is null or unknown: no diagnostic
\* is added and no error is set.
C11_NullAndUnknownPassThrough ==
    \A kind \in Kinds : \A op \in {"ValidateAttribute", "ValidateParameter"} :
        OnNullOrUnknown(kind, op) =>
            /\ resp.Diagnostics = ret.before.Diagnostics
            /\ resp.Error = ret.before.Error

\* An unknown MACAddress was validated as a parameter and no error was set
C11_Witness ==
    /\ OnNullOrUnknown("MACAddress", "ValidateParameter")
    /\ IsUnknown(v)
    /\ resp.Error = NoFuncError

-----------------------------------------------------------------------------
(* The typed accessors                                                     *)

\* The name of the typed accessor of a kind
AccessorName(kind) == "Value" \o kind

\* The last call was the typed accessor of v, a value of the kind
Accesses(kind) == ret.op = AccessorName(kind) /\ v.kind = kind

\* What the messages of the accessors call the value of a kind
Nouns ==
    {"IP address", "IPv4 address", "IPv6 address", "IP CIDR", "IPv4 CIDR", "IPv6 CIDR", "MAC address"}

\* netip.Addr{}, netip.Prefix{} and the nil net.HardwareAddr
ZeroValue(kind) ==
    CASE kind \in {"IPAddress", "IPv4Address", "IPv6Address"} -> ZeroAddr
      [] kind \in {"IPPrefix", "IPv4Prefix", "IPv6Prefix"} -> ZeroPrefix
      [] kind = "MACAddress" -> <<>>

\* The accessor returned one error diagnostic whose detail is a noun and
\* the ending
OneErrorEnding(ending) ==
    /\ Len(ret.diags) = 1
    /\ ret.diags[1].severity = "error"
    /\ \E noun \in Nouns : ret.diags[1].detail = L(noun \o ending)

\* C12: the typed accessor of every kind returns, for a null value, exactly
\* one error diagnostic whose detail ends in "string value is null" and, for
\* an unknown value, exactly one whose detail ends in "string value is
\* unknown", with the zero value of its structured type.
C12_NullAndUnknownAccessed ==
    \A kind \in Kinds :
        /\ (Accesses(kind) /\ IsNull(v)) =>
               OneErrorEnding(" string value is null") /\ ret.value = ZeroValue(kind)
        /\ (Accesses(kind) /\ IsUnknown(v)) =>
               OneErrorEnding(" string value is unknown") /\ ret.value = ZeroValue(kind)

\* The accessor of an unknown IPPrefix returned its diagnostic
C12_Witness ==
    /\ Accesses("IPPrefix")
    /\ IsUnknown(v)
    /\ Len(ret.diags) = 1
    /\ ret.diags[1].detail = L("IP CIDR string value is unknown")

\* xattr.ValidateableAttribute: the ValidateAttribute of the kind of x
ValidateAttributeOf(x, rq, rsp) ==
    CASE x.kind = "IPAddress" -> IPAddress_ValidateAttribute(x, rq, rsp)
      [] x.kind = "IPv4Address" -> IPv4Address_ValidateAttribute(x, rq, rsp)
      [] x.kind = "IPv6Address" -> IPv6Address_ValidateAttribute(x, rq, rsp)
      [] x.kind = "IPPrefix" -> IPPrefix_ValidateAttribute(x, rq, rsp)
      [] x.kind = "IPv4Prefix" -> IPv4Prefix_ValidateAttribute(x, rq, rsp)
      [] x.kind = "IPv6Prefix" -> IPv6Prefix_ValidateAttribute(x, rq, rsp)
      [] x.kind = "MACAddress" -> MACAddress_ValidateAttribute(x, rq, rsp)

\* x is known and ValidateAttribute of its kind adds nothing to an empty
\* response
KnownValid(x) ==
    /\ x.state = "known"
    /\ ValidateAttributeOf(x, req, Response(<<>>, NoFuncError)) = Response(<<>>, NoFuncError)

\* C13: the typed accessor of every kind returns no diagnostic if and only
\* if the value is known and passes the validation of its kind; a null, an
\* unknown and a known invalid value, a literal of the other family in a
\* family-specific kind included, get a diagnostic.
C13_AccessorOnlyWhenValid ==
    \A kind \in Kinds :
        Accesses(kind) => (ret.diags = <<>> <=> KnownValid(v))

\* The error of parsing the string of x as a value of the kind
ParseErrorOf(kind, x) ==
    IF kind = "MACAddress" THEN ParseMAC(x.value).err ELSE Parsed(kind, x).err

\* The last call was the typed accessor of v, a known value of the kind
\* whose string does not parse
AccessesUnparsed(kind) ==
    Accesses(kind) /\ v.state = "known" /\ ParseErrorOf(kind, v) # nil

\* The part of the text right after its part that is the literal s; no text
\* if s is not a part of it
After(text, s) ==
    IF HasPart(text, s)
    THEN SubSeq(text, 1 + CHOOSE i \in 1..Len(text) : text[i] = L(s)[1], Len(text))
    ELSE <<>>

\* The detail of a structural diagnostic of the validation: the sentence
\* that the string is not valid for the kind, the given value, the error
FollowsTextContract(detail, kind, x, err) ==
    /\ detail # <<>>
    /\ detail[1] = L(StructuralSentence(kind))[1]
    /\ After(detail, "Given Value: ") # <<>>
    /\ After(detail, "Given Value: ")[1] = C(x.value)[1]
    /\ After(detail, "Error: ") = Error(err)

\* C14 as stated: the diagnostic the typed accessor returns for a known
\* string that does not parse has the detail of the validation's structural
\* diagnostic: the sentence, the input after "Given Value:", the parser's
\* error after "Error:".
C14_AccessorFollowsTextContract ==
    \A kind \in Kinds :
        AccessesUnparsed(kind) =>
            /\ Len(ret.diags) = 1
            /\ FollowsTextContract(ret.diags[1].detail, kind, v, ParseErrorOf(kind, v))

\* The kinds whose value methods are in the source
SourceKinds == Kinds \ {"IPv6Prefix"}

\* C14, amended: the typed accessor of IPAddress, IPv4Address, IPv6Address,
\* IPPrefix, IPv4Prefix and MACAddress returns, for a known string that does
\* not parse, the zero value and exactly one error diagnostic titled
\* "<Kind> Value<Kind> Error" whose detail is the parser's error text alone,
\* with no sentence about the format, no "Given Value:" and no "Error:".
C14_AccessorSurfacesParserError ==
    \A kind \in SourceKinds :
        AccessesUnparsed(kind) =>
            /\ Len(ret.diags) = 1
            /\ ret.diags[1].severity = "error"
            /\ ret.diags[1].summary = kind \o " " \o AccessorName(kind) \o " Error"
            /\ ret.diags[1].detail = Error(ParseErrorOf(kind, v))
            /\ ~HasPart(ret.diags[1].detail, StructuralSentence(kind))
            /\ ~HasPart(ret.diags[1].detail, "Given Value: ")
            /\ ~HasErrorLine(ret.diags[1].detail)
            /\ ret.value = ZeroValue(kind)

\* The accessor of an IPPrefix that holds 2001:db8::/129 returned one
\* diagnostic
C14_Witness ==
    /\ AccessesUnparsed("IPPrefix")
    /\ v.value = <<"2", "0", "0", "1", ":", "d", "b", "8", ":", ":", "/", "1", "2", "9">>
    /\ Len(ret.diags) = 1

-----------------------------------------------------------------------------
(* Semantic equality: operands of another type, strings that do not parse  *)

\* The last call was StringSemanticEquals of v, a value of the kind, with o
ComparesWith(kind) == ret.op = "StringSemanticEquals" /\ w = NoValue /\ v.kind = kind

\* The Go name of the type of a value: package and type
GoTypeName(kind) ==
    CASE kind \in {"IPAddress", "IPv4Address", "IPv6Address"} -> "iptypes." \o kind
      [] kind \in {"IPPrefix", "IPv4Prefix", "IPv6Prefix"} -> "cidrtypes." \o kind
      [] kind = "MACAddress" -> "hwtypes." \o kind
      [] OTHER -> "basetypes." \o kind

\* The text names the type after the label
NamesType(text, label, kind) ==
    /\ After(text, label) # <<>>
    /\ After(text, label)[1] = L(GoTypeName(kind))[1]

\* C15: StringSemanticEquals of every kind that has it returns false and
\* exactly one error diagnostic titled "Semantic Equality Check Error" that
\* names the expected and the received type when the operand is of another
\* type, whatever its string, and no diagnostic when the operand is of the
\* receiver's type.
C15_OtherTypeIsAnError ==
    \A kind \in SemanticKinds :
        ComparesWith(kind) =>
            IF o.kind # kind
            THEN /\ ret.match = FALSE
                 /\ Len(ret.diags) = 1
                 /\ ret.diags[1].severity = "error"
                 /\ ret.diags[1].summary = "Semantic Equality Check Error"
                 /\ NamesType(ret.diags[1].detail, "Expected Value Type: ", kind)
                 /\ NamesType(ret.diags[1].detail, "Got Value Type: ", o.kind)
            ELSE ret.diags = <<>>

\* An IPAddress was compared with a basetypes.StringValue that holds the
\* same string
C15_Witness ==
    /\ ComparesWith("IPAddress")
    /\ o.kind = "StringValue"
    /\ v.state = "known" /\ o.state = "known" /\ o.value = v.value
    /\ ret.match = FALSE
    /\ Len(ret.diags) = 1

\* The last call compared v with o, two known values of the kind, and the
\* string of one of them does not parse
ComparesUnparsed(kind) ==
    /\ Compares(kind)
    /\ ParseErrorOf(kind, v) # nil \/ ParseErrorOf(kind, o) # nil

-----------------------------------------------------------------------------
(* Validation: what is reported, and where                                 *)

\* The last call was the method op on v, a known value of the kind whose
\* string does not parse
ValidatesUnparsed(kind, op) == Validates(kind, op) /\ ParseErrorOf(kind, v) # nil

\* The diagnostics the response was given are still its first diagnostics
KeepsDiagnostics ==
    /\ Len(resp.Diagnostics) >= Len(ret.before.Diagnostics)
    /\ SubSeq(resp.Diagnostics, 1, Len(ret.before.Diagnostics)) = ret.before.Diagnostics

\* C17: for a known string that does not parse, ValidateAttribute of every
\* kind adds exactly one error diagnostic, at the path of the request, with
\* the title of the kind, and a detail that has the string itself after
\* "Given Value: " and the parser's error text, as it is, after "Error: ".
C17_ParseFailureDiagnostic ==
    \A kind \in Kinds :
        ValidatesUnparsed(kind, "ValidateAttribute") =>
            /\ KeepsDiagnostics
            /\ Len(Added) = 1
            /\ Added[1].severity = "error"
            /\ Added[1].path = req.Path
            /\ Added[1].summary = Title(kind)
            /\ After(Added[1].detail, "Given Value: ") # <<>>
            /\ After(Added[1].detail, "Given Value: ")[1] = C(v.value)[1]
            /\ After(Added[1].detail, "Error: ") = Error(ParseErrorOf(kind, v))

\* An IPPrefix that holds 2001:db8::/129 was validated as an attribute and
\* one diagnostic with the parser's error was added
C17_Witness ==
    /\ ValidatesUnparsed("IPPrefix", "ValidateAttribute")
    /\ v.value = <<"2", "0", "0", "1", ":", "d", "b", "8", ":", ":", "/", "1", "2", "9">>
    /\ Len(Added) = 1
    /\ HasErrorLine(Added[1].detail)

\* The last call was ValidateParameter on v, a value of the kind in any state
ValidatesParameter(kind) == ret.op = "ValidateParameter" /\ v.kind = kind

\* The diagnostics ValidateAttribute of the kind of x adds to an empty
\* response
AttributeDiagnostics(x) ==
    ValidateAttributeOf(x, req, Response(<<>>, NoFuncError)).Diagnostics

\* C18: for a value of every kind in every state, ValidateParameter sets an
\* error exactly when ValidateAttribute adds a diagnostic; the error is at
\* the position of the request, and its text is the title of the
\* diagnostic, ": " and the detail of the diagnostic.
C18_ParameterMirrorsAttribute ==
    \A kind \in Kinds :
        ValidatesParameter(kind) =>
            /\ (resp.Error # NoFuncError) <=> (AttributeDiagnostics(v) # <<>>)
            /\ AttributeDiagnostics(v) # <<>> =>
                   /\ Len(AttributeDiagnostics(v)) = 1
                   /\ resp.Error.FunctionArgument = req.Position
                   /\ resp.Error.Text =
                          L(AttributeDiagnostics(v)[1].summary) \o L(": ")
                              \o AttributeDiagnostics(v)[1].detail

\* An IPv4Prefix that holds an IPv6 prefix was validated as a parameter and
\* the error has the text of the family mismatch
C18_Witness ==
    /\ ValidatesParameter("IPv4Prefix")
    /\ v.state = "known"
    /\ OtherFamily("IPv4Prefix", v)
    /\ resp.Error.FunctionArgument = req.Position
    /\ HasPart(resp.Error.Text, MismatchSentence("IPv4Prefix"))

\* The string of x is not a value of the kind: it does not parse, or it is
\* of the family the kind does not take
NotOfKind(kind, x) ==
    \/ ParseErrorOf(kind, x) # nil
    \/ kind \in FamilyKinds /\ OtherFamily(kind, x)

\* The last call was the method op on v, a known value of the kind whose
\* string is not a value of the kind
ValidatesInvalid(kind, op) == Validates(kind, op) /\ NotOfKind(kind, v)

\* The error the response was given is still in it: as it was, or as a part
\* of the error it holds now
KeepsError ==
    \/ ret.before.Error = NoFuncError
    \/ resp.Error = ret.before.Error
    \/ \A i \in 1..Len(ret.before.Error.Text) :
           \E j \in 1..Len(resp.Error.Text) : resp.Error.Text[j] = ret.before.Error.Text[i]

\* C19 as stated: a validation that finds its value invalid adds to the
\* response and removes or replaces nothing the response holds, neither a
\* diagnostic (ValidateAttribute) nor an error (ValidateParameter).  Stated
\* of the kinds whose methods are in the source.
C19_NothingIsReplaced ==
    \A kind \in SourceKinds :
        /\ ValidatesInvalid(kind, "ValidateAttribute") => KeepsDiagnostics /\ Len(Added) >= 1
        /\ ValidatesInvalid(kind, "ValidateParameter") => KeepsError /\ resp.Error # NoFuncError

\* C19, amended: ValidateAttribute of IPAddress, IPv4Address, IPv6Address,
\* IPPrefix, IPv4Prefix and MACAddress that finds its value invalid appends
\* its diagnostic after the diagnostics the response holds, which stay as
\* they are; ValidateParameter that finds its value invalid sets the error
\* of the response to its own error at the position of the request, and an
\* error the response held is replaced by it.
C19_AttributeAppendsParameterReplaces ==
    \A kind \in SourceKinds :
        /\ ValidatesInvalid(kind, "ValidateAttribute") =>
               /\ KeepsDiagnostics
               /\ Len(Added) = 1
               /\ Added[1].summary = Title(kind)
        /\ ValidatesInvalid(kind, "ValidateParameter") =>
               /\ resp.Error.FunctionArgument = req.Position
               /\ resp.Error.Text # <<>>
               /\ resp.Error.Text[1] = L(Title(kind))[1]
               /\ \A i \in 1..Len(OtherFuncError.Text) :
                      ~\E j \in 1..Len(resp.Error.Text) : resp.Error.Text[j] = OtherFuncError.Text[i]

\* An IPPrefix that does not parse was validated as a parameter into a
\* response that held the error of another check, and that error is gone
C19_Witness ==
    /\ ValidatesInvalid("IPPrefix", "ValidateParameter")
    /\ ret.before.Error = OtherFuncError
    /\ resp.Error # OtherFuncError
    /\ ~KeepsError

-----------------------------------------------------------------------------
(* The bit-length of a prefix                                              *)

PrefixKinds == {"IPPrefix", "IPv4Prefix", "IPv6Prefix"}

\* The bit width of the family the address of a prefix text is written in:
\* an IPv6 address has a colon, an IPv4 address has none
WidthOf(s) == IF IndexByteString(AddressPart(s), ":") >= 0 THEN 128 ELSE 32

\* A decimal bit-length within the width: digits with no sign and no zero in
\* front, at most the width
IsLength(b, width) ==
    /\ AllDigits(b) /\ Len(b) <= 3
    /\ Len(b) = 1 \/ b[1] # "0"
    /\ DecimalValue(b) <= width

\* The string of the value has a '/' and a bit-length of its family after it
HasLength(s) == HasSlash(s) /\ IsLength(BitsPart(s), WidthOf(s))

\* The accessor of the kind was called on a known value and returned no
\* diagnostic
AccessesCleanly(kind) == Accesses(kind) /\ v.state = "known" /\ ret.diags = <<>>

\* C20: a prefix that passes validation, or that an accessor returns with no
\* diagnostic, has a bit-length of 0 .. 32 when its address is IPv4 and of
\* 0 .. 128 when it is IPv6; a string with a '/' whose length is above the
\* width of the family, is no number, or is malformed (empty, signed, with a
\* zero in front) is reported as a string that does not parse, and the
\* accessor returns the zero prefix and a diagnostic for it.
C20_BitLengthWithinFamilyWidth ==
    \A kind \in PrefixKinds :
        /\ \A op \in {"ValidateAttribute", "ValidateParameter"} :
               /\ (Validates(kind, op) /\ ReportedNothing) => HasLength(v.value)
               /\ (Validates(kind, op) /\ HasSlash(v.value) /\ ~HasLength(v.value)) =>
                      /\ Reported # <<>>
                      /\ Reported[1] = L(StructuralSentence(kind))[1]
                      /\ HasErrorLine(Reported)
        /\ AccessesCleanly(kind) =>
               /\ HasLength(v.value)
               /\ Is4(PrefixAddr(ret.value)) \/ Is6(PrefixAddr(ret.value))
               /\ Bits(ret.value) \in 0..(IF Is4(PrefixAddr(ret.value)) THEN 32 ELSE 128)
               /\ Bits(ret.value) = DecimalValue(BitsPart(v.value))
        /\ (Accesses(kind) /\ v.state = "known" /\ HasSlash(v.value) /\ ~HasLength(v.value)) =>
               /\ ret.diags # <<>>
               /\ ret.value = ZeroPrefix

\* An IPv4Prefix with the bit-length 999 was validated and one diagnostic
\* added, with the parser's error
C20_Witness ==
    /\ Validates("IPv4Prefix", "ValidateAttribute")
    /\ HasSlash(v.value)
    /\ BitsPart(v.value) = <<"9", "9", "9">>
    /\ IsDottedQuad(AddressPart(v.value))
    /\ Len(Added) = 1
    /\ HasErrorLine(Added[1].detail)

-----------------------------------------------------------------------------
(* The text of a MAC address                                               *)

HexDigits ==
    {"0", "1", "2", "3", "4", "5", "6", "7", "8", "9",
     "a", "b", "c", "d", "e", "f", "A", "B", "C", "D", "E", "F"}

\* Groups of step - 1 hex digits with the delimiter d between them
IsDelimited(s, d, step) ==
    /\ (Len(s) + 1) % step = 0
    /\ \A i \in 1..Len(s) : IF i % step = 0 THEN s[i] = d ELSE s[i] \in HexDigits

\* 6, 8 or 20 octets of two hex digits: with ':' or with '-' between the
\* octets, or with '.' between groups of two octets
IsMACText(s) ==
    \/ \E d \in {":", "-"} : IsDelimited(s, d, 3) /\ (Len(s) + 1) \div 3 \in {6, 8, 20}
    \/ IsDelimited(s, ".", 5) /\ (2 * (Len(s) + 1)) \div 5 \in {6, 8, 20}

\* C21: MACAddress validation reports nothing for a known string exactly
\* when the string is 6, 8 or 20 hex octets, in either case, delimited by
\* colons, by hyphens, or by dots in groups of two octets; for every other
\* string (another number of octets, a character that is no hex digit,
\* mixed delimiters) it reports one error titled "Invalid MAC Address
\* String Value".
C21_MACTextAccepted ==
    \A op \in {"ValidateAttribute", "ValidateParameter"} :
        Validates("MACAddress", op) =>
            /\ ReportedNothing <=> IsMACText(v.value)
            /\ ~IsMACText(v.value) =>
                   /\ Reported # <<>>
                   /\ Title(v.kind) = "Invalid MAC Address String Value"
                   /\ Reported[1] = L(StructuralSentence("MACAddress"))[1]

\* A MACAddress of 7 octets was validated and one diagnostic added
C21_Witness ==
    /\ Validates("MACAddress", "ValidateAttribute")
    /\ IsDelimited(v.value, ":", 3)
    /\ (Len(v.value) + 1) \div 3 = 7
    /\ Len(Added) = 1
    /\ Added[1].summary = "Invalid MAC Address String Value"

-----------------------------------------------------------------------------
(* Decoding a wire value                                                   *)

\* The last call decoded the wire value req.In with the type of the kind
Decodes(kind) == ret.op = "ValueFromTerraform" /\ req.Type = kind

\* The value returned is of the kind, in the state of the wire value, and
\* holds its string
SameStateAndString(kind) ==
    /\ ret.err = nil
    /\ v.kind = kind
    /\ v.state = req.In.state
    /\ v.value = (IF req.In.state = "known" THEN req.In.value ELSE <<>>)

-----------------------------------------------------------------------------
(* Concurrent calls                                                        *)

\* No other goroutine is given the response object of the call of g
OwnResponse(g) == \A h \in Goroutines \ {g} : req[h].Resp # req[g].Resp

\* The call of g has returned
Returns(g) == ret[g].pc = "done"

\* What the call of g gives back when it runs alone on the values, with a
\* fresh response
Alone(g) == Run(req[g].op, ValueOf(req[g].recv), OtherOf(req[g].recv), req[g], Fresh)

-----------------------------------------------------------------------------
(* Equal of the kinds without semantic equality                            *)

\* The last call was v.Equal(o) on a receiver of the kind
Equates(kind) == ret.op = "Equal" /\ v.kind = kind

\* The two strings are the same, byte for byte
SameBytes(a, b) == Len(a) = Len(b) /\ \A i \in 1..Len(a) : a[i] = b[i]

\* C24: IPv4Address and IPv4Prefix have no StringSemanticEquals, and their
\* Equal answers true exactly when the other value is of the same kind, in
\* the same state (null, unknown or known) and, when known, holds the same
\* string byte for byte: two spellings that differ are never equal.
C24_EqualIsByteForByte ==
    \A kind \in {"IPv4Address", "IPv4Prefix"} :
        /\ kind \notin SemanticKinds
        /\ Equates(kind) =>
               (ret.match <=>
                   /\ o.kind = kind
                   /\ (v.state = "null" /\ o.state = "null")
                          \/ (v.state = "unknown" /\ o.state = "unknown")
                          \/ (v.state = "known" /\ o.state = "known" /\ SameBytes(v.value, o.value)))

\* Two known IPv4Address values were compared whose strings differ only in
\* a zero in front of an octet, and the answer was false
C24_Witness ==
    /\ Equates("IPv4Address")
    /\ o.kind = "IPv4Address"
    /\ v.state = "known" /\ o.state = "known"
    /\ v.value \in Texts(V4Table)
    /\ o.value \notin Texts(V4Table)
    /\ \E octs \in V4Values :
           /\ v.value = V4Spell(octs, [i \in 1..4 |-> 0])
           /\ \E pads \in [1..4 -> 0..MaxPad] : o.value = V4Spell(octs, pads)
    /\ ~ret.match

-----------------------------------------------------------------------------
(* Semantic equality of values that do not parse                           *)

\* The string of x does not parse as a value of the kind; the string of a
\* null or unknown value is empty
FailsToParse(kind, x) == ParseErrorOf(kind, StringValue(kind, "known", ValueString(x))) # nil

\* The last call compared v with o, two values of the kind in any state
ComparesSameKind(kind) == ComparesWith(kind) /\ o.kind = kind

-----------------------------------------------------------------------------
(* Equal and semantic equality                                             *)

\* C26: for two values of a kind with StringSemanticEquals, in any state,
\* that Equal finds equal, StringSemanticEquals answers true and returns no
\* diagnostic.
C26_EqualImpliesSemanticallyEqual ==
    \A kind \in SemanticKinds :
        (ComparesWith(kind) /\ Equal(v, o)) => ret.match /\ ret.diags = <<>>

\* An IPPrefix that does not parse was compared with a value Equal to it
\* and the answer was true
C26_Witness ==
    /\ ComparesWith("IPPrefix")
    /\ Equal(v, o)
    /\ v.state = "known"
    /\ ParsePrefix(v.value).err # nil
    /\ ret.match
    /\ ret.diags = <<>>

-----------------------------------------------------------------------------
(* Semantic equality and the zone of an IPv6 address                       *)

\* What is written after the '%' of an address; nothing without a '%'
ZoneText(s) == IF IndexByteString(s, "%") < 0 THEN <<>> ELSE From(s, IndexByteString(s, "%") + 1)

\* C27: for IPAddress and IPv6Address, two valid IPv6 addresses with the
\* same bytes and different zones, or one with a zone and one without, are
\* not semantically equal, and no diagnostic is returned.
C27_ZoneTakesPart ==
    \A kind \in {"IPAddress", "IPv6Address"} :
        (/\ Compares(kind) /\ ValidAddress(kind, v) /\ ValidAddress(kind, o)
         /\ AddrMeaningOf(v).family = 6 /\ AddrMeaningOf(o).family = 6
         /\ AddrMeaningOf(v).bytes = AddrMeaningOf(o).bytes
         /\ ZoneText(v.value) # ZoneText(o.value)) =>
            ~ret.match /\ ret.diags = <<>>

\* An address with the zone eth0 was compared with the same address
\* without a zone and the answer was false
C27_Witness ==
    /\ Compares("IPAddress")
    /\ ValidAddress("IPAddress", v) /\ ValidAddress("IPAddress", o)
    /\ AddrMeaningOf(v).bytes = AddrMeaningOf(o).bytes
    /\ ZoneText(v.value) = <<"e", "t", "h", "0">>
    /\ ZoneText(o.value) = <<>>
    /\ ~ret.match

-----------------------------------------------------------------------------
(* Validation: what a call leaves of the response                          *)

\* v is a known value whose string is in the table of the valid strings of
\* the kind, of the family the kind takes
HoldsValid(kind) ==
    /\ v.state = "known"
    /\ CASE kind \in {"IPAddress", "IPv4Address", "IPv6Address"} ->
                \E m \in Meanings(AddrTable \cup DocumentedTable, v.value) :
                    /\ kind = "IPv4Address" => m.family = 4
                    /\ kind = "IPv6Address" => m.family = 6
         [] kind \in {"IPPrefix", "IPv4Prefix", "IPv6Prefix"} ->
                \E m \in Meanings(PrefixTable, v.value) :
                    /\ kind = "IPv4Prefix" => m.family = 4
                    /\ kind = "IPv6Prefix" => m.family = 6
         [] kind = "MACAddress" -> Meanings(MACTable, v.value) # {}

\* C28: for a value of any kind in any state, ValidateAttribute adds at most
\* one diagnostic after those the response held and leaves its error, and
\* ValidateParameter leaves the diagnostics and sets at most the one error
\* of the response; for a known valid value either leaves the response as
\* it was passed in.
C28_AtMostOneReport ==
    \A kind \in Kinds :
        /\ (ret.op = "ValidateAttribute" /\ v.kind = kind) =>
               /\ Len(resp.Diagnostics) <= Len(ret.before.Diagnostics) + 1
               /\ SubSeq(resp.Diagnostics, 1, Len(ret.before.Diagnostics)) = ret.before.Diagnostics
               /\ resp.Error = ret.before.Error
        /\ (ret.op = "ValidateParameter" /\ v.kind = kind) =>
               /\ resp.Diagnostics = ret.before.Diagnostics
               /\ resp.Error = ret.before.Error \/ resp.Error.FunctionArgument = req.Position
        /\ (ret.op \in {"ValidateAttribute", "ValidateParameter"} /\ v.kind = kind /\ HoldsValid(kind)) =>
               resp = ret.before

\* A valid IPv4Prefix was validated as a parameter into a response that
\* held the error of another parameter, and the response is as it was
C28_Witness ==
    /\ ret.op = "ValidateParameter"
    /\ v.kind = "IPv4Prefix"
    /\ HoldsValid("IPv4Prefix")
    /\ ret.before.Error = OtherFuncError
    /\ resp = ret.before

-----------------------------------------------------------------------------
(* Validation: the branch after the family check                           *)

IPKinds == Kinds \ {"MACAddress"}

\* C29: in the validation of every IP kind, a string that parses gives a
\* valid address that is IPv4 or IPv6 and not both, and a valid prefix, so
\* the branch that reports a string that is not valid without the parser's
\* error is never taken: every report has the "Error: " line of a parse
\* failure or is the family mismatch of the kind.
C29_LastBranchIsNotTaken ==
    \A kind \in IPKinds : \A op \in {"ValidateAttribute", "ValidateParameter"} :
        /\ (Validates(kind, op) /\ Parsed(kind, v).err = nil) =>
               /\ IsValid(Parsed(kind, v).ip)
               /\ Is4(Parsed(kind, v).ip) # Is6(Parsed(kind, v).ip)
               /\ kind \in PrefixKinds => PrefixIsValid(ParsePrefix(v.value).p)
        /\ (Validates(kind, op) /\ ~ReportedNothing) =>
               /\ Reported # <<>>
               /\ \/ HasErrorLine(Reported)
                  \/ kind \in FamilyKinds /\ Reported[1] = L(MismatchSentence(kind))[1]

\* An IPv6Address that holds an IPv4 address was validated: the report is
\* the family mismatch, with no "Error: " line
C29_Witness ==
    /\ Validates("IPv6Address", "ValidateAttribute")
    /\ Parsed("IPv6Address", v).err = nil
    /\ Reported # <<>>
    /\ Reported[1] = L(MismatchSentence("IPv6Address"))[1]
    /\ ~HasErrorLine(Reported)

-----------------------------------------------------------------------------
(* Validate of the types and ValidateAttribute of the values               *)

\* The last call was Validate of the type of the kind on the wire value
\* req.In
TypeValidates(kind) == ret.op = "Validate" /\ req.Type = kind

\* The diagnostics ValidateAttribute adds, for the path of the request and
\* to an empty response, on the value of the kind that holds the wire
\* string
ValueDiagnostics(kind) ==
    ValidateAttributeOf(
        StringValue(kind, req.In.state, req.In.value),
        [Path |-> req.Path, Position |-> req.Position],
        Response(<<>>, NoFuncError)).Diagnostics

TypeValidationTitle(kind) ==
    CASE kind = "IPv4Address" -> "IPv4 Address Type Validation Error"
      [] kind = "IPv6Address" -> "IPv6 Address Type Validation Error"
      [] kind = "IPv4Prefix" -> "IPv4 Prefix Type Validation Error"
      [] kind = "IPv6Prefix" -> "IPv6 Prefix Type Validation Error"

====
